---- MODULE Spec2Model ----
(***************************************************************************)
(* Model of the EEG preprocessing scripts.                                 *)
(*                                                                         *)
(*   01_Load_and_filter.py   stage 1, manual stream selection              *)
(*   Load_and_filter.py      stage 1, automatic stream selection           *)
(*   02_Interpolate_Bad_Channels.py  stage 2, bad channels                 *)
(*   03_Re-reference.py      stage 3, average reference                    *)
(*   04_ICA.py               stage 4, artifact components                  *)
(*   05_Epoch_and_Rejection.py  stage 5, segmentation                      *)
(*   06_Bandpower.py         stage 6, band power (band selection)          *)
(*   07_Bandpower_Statistics.py  stage 7, statistics (band selection)      *)
(*                                                                         *)
(* Python strings that the code inspects (type tags, channel labels,       *)
(* console lines, marker payloads) are sequences of one-character strings, *)
(* so that str.upper, str.lower, `in`, == and int() are computed the way   *)
(* Python computes them.  Time is counted in sample periods of the signal  *)
(* stream (nominal_srate = 1 per unit).                                    *)
(*                                                                         *)
(* Calls into mne are modelled by the documented behaviour of the call:    *)
(* mne.Annotations keeps its entries sorted by onset, Raw.set_annotations  *)
(* crops them to the data span, rename_channels refuses duplicate names,   *)
(* mne.Epochs refuses an event_id value that no event carries and drops   *)
(* the windows that leave the recording (NO_DATA, TOO_SHORT),              *)
(* events_from_annotations numbers the sorted distinct labels from 1,      *)
(* drop_bad logs a rejected epoch under the names of the EEG channels over *)
(* the threshold, interpolate_bads acts on EEG channels only,              *)
(* add_reference_channels refuses a name the roster has,                   *)
(* set_eeg_reference(projection=True) adds a projector and leaves the data,*)
(* ICA.fit refuses more components than picked channels, compute_psd      *)
(* returns the bins k * sfreq / n_fft from fmin to fmax.  Where releases    *)
(* of the library differ, or the outcome depends on the data, the step     *)
(* takes either outcome.                                                   *)
(***************************************************************************)
EXTENDS Integers, Sequences, FiniteSets, TLC

\* ------------------------------------------------------------------ bounds

MaxStreams == 3
MaxExtra == 2
MaxEvents == 2

\* ----------------------------------------------------------- Python strings

LowerLetters == <<"a","b","c","d","e","f","g","h","i","j","k","l","m",
                  "n","o","p","q","r","s","t","u","v","w","x","y","z">>
UpperLetters == <<"A","B","C","D","E","F","G","H","I","J","K","L","M",
                  "N","O","P","Q","R","S","T","U","V","W","X","Y","Z">>
Digits == <<"0","1","2","3","4","5","6","7","8","9">>

IndexIn(c, table) == CHOOSE i \in 1..Len(table) : table[i] = c
IsIn(c, table) == \E i \in 1..Len(table) : table[i] = c

UpperChar(c) == IF IsIn(c, LowerLetters) THEN UpperLetters[IndexIn(c, LowerLetters)] ELSE c
LowerChar(c) == IF IsIn(c, UpperLetters) THEN LowerLetters[IndexIn(c, UpperLetters)] ELSE c

\* str.upper(), str.lower()
Upper(s) == [i \in 1..Len(s) |-> UpperChar(s[i])]
Lower(s) == [i \in 1..Len(s) |-> LowerChar(s[i])]

\* Python `sub in s` on strings
Contains(sub, s) ==
  \E i \in 0..(Len(s) - Len(sub)) : SubSeq(s, i + 1, i + Len(sub)) = sub

\* Python `x in list`
InList(x, list) == \E i \in 1..Len(list) : list[i] = x

\* str.strip() of blanks
RECURSIVE LStrip(_)
LStrip(s) == IF s # <<>> /\ Head(s) = " " THEN LStrip(Tail(s)) ELSE s
RECURSIVE RStrip(_)
RStrip(s) ==
  IF s # <<>> /\ s[Len(s)] = " " THEN RStrip(SubSeq(s, 1, Len(s) - 1)) ELSE s
Strip(s) == RStrip(LStrip(s))

\* int(str): blanks around, an optional sign, then digits, single underscores
\* allowed between digits.  Anything else raises ValueError.
DigitsBody(b) ==
  /\ b # <<>>
  /\ IsIn(b[1], Digits)
  /\ IsIn(b[Len(b)], Digits)
  /\ \A i \in 1..Len(b) : IsIn(b[i], Digits) \/ b[i] = "_"
  /\ \A i \in 1..(Len(b) - 1) : ~(b[i] = "_" /\ b[i + 1] = "_")
Unsigned(s) ==
  IF s # <<>> /\ (s[1] = "-" \/ s[1] = "+") THEN Tail(s) ELSE s
IntParses(s) == DigitsBody(Unsigned(Strip(s)))
RECURSIVE DigitsValue(_)
DigitsValue(b) ==
  IF b = <<>> THEN 0
  ELSE IF b[Len(b)] = "_" THEN DigitsValue(SubSeq(b, 1, Len(b) - 1))
  ELSE 10 * DigitsValue(SubSeq(b, 1, Len(b) - 1)) + (IndexIn(b[Len(b)], Digits) - 1)
IntValue(s) ==
  LET t == Strip(s)
  IN  IF t[1] = "-" THEN 0 - DigitsValue(Unsigned(t)) ELSE DigitsValue(Unsigned(t))

\* str(n) of a non-negative integer
RECURSIVE DecStr(_)
DecStr(n) ==
  IF n < 10 THEN <<Digits[n + 1]>> ELSE DecStr(n \div 10) \o <<Digits[(n % 10) + 1]>>

\* A sample value of a stream: a string, an integer or a (whole) float.
StrVal(s) == [k |-> "str", s |-> s, n |-> 0]
IntVal(n) == [k |-> "int", s |-> <<>>, n |-> n]
FloatVal(n) == [k |-> "float", s |-> <<>>, n |-> n]

\* str(value)
PyStr(v) ==
  CASE v.k = "str" -> v.s
    [] v.k = "int" -> DecStr(v.n)
    [] v.k = "float" -> DecStr(v.n) \o <<".", "0">>

\* ------------------------------------------------------- recording (XDF)

\* A stream of the recording.  `desc` says whether info/desc lists channels;
\* stamps are time_stamps; series is time_series (one row per sample).
EegStream(name, type, labels, t0, n) ==
  [name |-> name, type |-> type, fmt |-> "float32", desc |-> TRUE,
   labels |-> labels,
   stamps |-> [i \in 1..n |-> t0 + i - 1],
   series |-> [i \in 1..n |-> [j \in 1..Len(labels) |-> FloatVal(0)]]]

EventStream(name, type, fmt, stamps, payloads) ==
  [name |-> name, type |-> type, fmt |-> fmt, desc |-> FALSE,
   labels |-> <<>>,
   stamps |-> stamps,
   series |-> [i \in 1..Len(payloads) |-> <<payloads[i]>>]]

T_EEG == <<"E","E","G">>
T_Markers == <<"M","a","r","k","e","r","s">>
T_EEG_Markers == <<"E","E","G","_","M","a","r","k","e","r","s">>
T_lower == <<"e","e","g"," ","m","a","r","k","e","r","s">>

L_Cz == <<"C","z">>
L_Fz == <<"F","z">>
L_FPz == <<"F","P","z">>
L_Fpz == <<"F","p","z">>
L_fpz == <<"f","p","z">>
L_OZ == <<"O","Z">>
L_Oz == <<"O","z">>
L_AUX7 == <<"A","U","X","7">>
L_aux7 == <<"a","u","x","7">>
L_AUX8 == <<"A","U","X","8">>
L_AUX9 == <<"A","U","X","9">>
L_EOG == <<"E","O","G">>
L_vEOG == <<"v","E","O","G">>
L_hEOG == <<"h","E","O","G">>
L_eog1 == <<"e","o","g","1">>
L_ECG == <<"E","C","G">>
L_ecg == <<"e","c","g">>
L_TRIGGER == <<"T","R","I","G","G","E","R">>
L_Trigger1 == <<"T","r","i","g","g","e","r","1">>
L_ECG_EOG == <<"E","C","G","_","E","O","G">>
L_TRIGGER_ECG == <<"T","R","I","G","G","E","R","_","E","C","G">>

P_A == <<"A">>
P_B == <<"B">>

StreamPool ==
  { EegStream("eegA", T_EEG, <<L_Cz, L_EOG, L_AUX7>>, 10, 4),
    EegStream("eegB", T_EEG, <<L_FPz, L_TRIGGER>>, 12, 3),
    EventStream("mrkA", T_Markers, "string", <<11, 12>>, <<StrVal(P_A), StrVal(P_B)>>),
    EventStream("mrkB", T_EEG_Markers, "int32", <<13>>, <<IntVal(8)>>),
    EegStream("other", T_lower, <<L_Fz>>, 10, 4) }

Seqs(S, n) == UNION { [1..k -> S] : k \in 0..n }

\* Recordings that vary the streams' order and type tags.
Recordings == Seqs(StreamPool, MaxStreams)

\* Recordings that vary the signal stream's channel labels.
ExtraLabels ==
  { L_FPz, L_fpz, L_OZ, L_AUX7, L_aux7, L_AUX8, L_AUX9, L_EOG, L_vEOG,
    L_eog1, L_ECG, L_TRIGGER, L_Trigger1, L_ECG_EOG, L_TRIGGER_ECG }
Distinct(s) == \A i, j \in 1..Len(s) : i # j => s[i] # s[j]
Rosters == { <<L_Cz>> \o x : x \in { y \in Seqs(ExtraLabels, MaxExtra) : Distinct(y) } }
RosterRecordings ==
  { << EegStream("eegA", T_EEG, r, 10, 4),
       EventStream("mrkA", T_Markers, "string", <<11, 12>>, <<StrVal(P_A), StrVal(P_B)>>) >>
    : r \in Rosters }

\* Recordings that vary the event stream's samples.
EventStamps == {9, 10, 12, 15}
StringEvents == { [t |-> t, v |-> StrVal(p)] : t \in EventStamps, p \in {P_A, P_B} }
IntEvents == { [t |-> t, v |-> IntVal(12)] : t \in EventStamps }
EventsOf(fmt, ev) ==
  EventStream("mrk", T_Markers, fmt,
              [i \in 1..Len(ev) |-> ev[i].t], [i \in 1..Len(ev) |-> ev[i].v])
EventRecordings ==
  { << EegStream("eegA", T_EEG, <<L_Cz, L_EOG>>, 10, 4), EventsOf("string", ev) >>
    : ev \in Seqs(StringEvents, MaxEvents) }
  \cup
  { << EegStream("eegA", T_EEG, <<L_Cz, L_EOG>>, 10, 4), EventsOf("int32", ev) >>
    : ev \in Seqs(IntEvents, MaxEvents) }

\* ------------------------------------------------------------------ state

VARIABLES
  script,        \* the script that is running
  disk,          \* file name -> content
  pc,            \* position of the running script
  streams,       \* streams returned by pyxdf.load_xdf
  lastInput,     \* the console line read by the latest input()
  eeg_stream,    \* selection of the signal stream
  marker_stream, \* selection of the event stream
  raw,           \* the Raw object of the running script
  raw_filtered,  \* stage 1: the filtered copy
  console,       \* the latest message printed
  exitCode,      \* exit status of the process, once pc = "exit"
  events,        \* stage 5: events and event ids read from the annotations
  epochs,        \* stage 5: the Epochs object
  final_bads,    \* stage 2: the bad-channel list being edited
  raw_interpolated, \* stage 2: the interpolated copy
  raw_with_ref,  \* stage 3: the data with the reference channel added
  raw_rerefed,   \* stage 3: the re-referenced copy
  filt_raw,      \* stage 4: the high-passed copy the ICA is fitted on
  ica,           \* stage 4: the ICA object
  raw_cleaned,   \* stage 4: the copy the ICA is applied to
  freqs,         \* stages 6, 7: the frequency bins of the spectrum
  band,          \* stages 6, 7: the band being evaluated
  freq_idx       \* stages 6, 7: the bins selected for the band

vars == <<script, disk, pc, streams, lastInput, eeg_stream, marker_stream,
          raw, raw_filtered, console, exitCode, events, epochs,
          final_bads, raw_interpolated, raw_with_ref, raw_rerefed,
          filt_raw, ica, raw_cleaned, freqs, band, freq_idx>>

\* the variables of stage 1 alone, and those of the later stages alone
stage1Vars == <<streams, lastInput, eeg_stream, marker_stream, raw_filtered>>
interpVars == <<final_bads, raw_interpolated>>
rerefVars == <<raw_with_ref, raw_rerefed>>
icaVars == <<filt_raw, ica, raw_cleaned>>
bandVars == <<freqs, band, freq_idx>>
cleanVars == <<interpVars, rerefVars, icaVars, bandVars>>
laterVars == <<events, epochs, cleanVars>>

\* Python None, for raw and raw_filtered
None == [isNone |-> TRUE]

\* a stream selection: not yet assigned, None, or streams[idx] (0-based idx)
Unassigned == [st |-> "unassigned", idx |-> 0]
SelNone == [st |-> "none", idx |-> 0]
Sel(i) == [st |-> "stream", idx |-> i]
StreamOf(sel) == streams[sel.idx + 1]

\* events and event_id before events_from_annotations has run
NoEvents == [events |-> <<>>, event_id |-> <<>>]

NoFile == [kind |-> "absent"]
XdfFile(rec) == [kind |-> "xdf", streams |-> rec]
FifFile(r) == [kind |-> "fif", raw |-> r]

EpoFile(e) == [kind |-> "epo", epochs |-> e]

ManualScript == "01_Load_and_filter.py"
AutoScript == "Load_and_filter.py"
InterpScript == "02_Interpolate_Bad_Channels.py"
RerefScript == "03_Re-reference.py"
IcaScript == "04_ICA.py"
EpochScript == "05_Epoch_and_Rejection.py"
BandScript == "06_Bandpower.py"
StatScript == "07_Bandpower_Statistics.py"

\* input_fname of each script
InputName(s) ==
  CASE s = ManualScript -> "sub-P003_ses-S001_task-Default_run-001_eeg.xdf"
    [] s = AutoScript -> "sub-P002_ses-S001_task-Default_run-001_eeg.xdf"
    [] s = InterpScript -> "sub-P002_ses-S001_task-Default_run-001_filtered_raw.fif"
    [] s = RerefScript -> "sub-P002_ses-S001_task-Default_run-001_interpolated_raw.fif"
    [] s = IcaScript -> "sub-P003_ses-S001_task-Default_run-001_rereferenced_raw.fif"
    [] s = EpochScript -> "sub-P004_ses-S003_task-Default_run-001_ica_cleaned_raw.fif"
    [] s \in {BandScript, StatScript} ->
         "sub-P004_ses-S002_task-Default_run-merged_clean_epo.fif"
\* filtered_output_fname of the two stage-1 scripts
FilteredName(s) ==
  IF s = ManualScript THEN "sub-P003_ses-S001_task-Default_run-001_filtered_raw.fif"
  ELSE "sub-P002_ses-S001_task-Default_run-001_filtered_raw.fif"
\* output_fname of stage 5
EpochsName == "sub-P004_ses-S003_task-Default_run-001_clean_epo.fif"

\* output_fname of stages 2, 3 and 4, and ica_output_fname of stage 4
InterpolatedName == "sub-P002_ses-S001_task-Default_run-001_interpolated_raw.fif"
RereferencedName == "sub-P002_ses-S001_task-Default_run-001_rereferenced_raw.fif"
IcaCleanedName == "sub-P003_ses-S001_task-Default_run-001_ica_cleaned_raw.fif"
IcaSolutionName == "sub-P003_ses-S001_task-Default_run-001-ica.fif"

IcaFile(i) == [kind |-> "ica", ica |-> i]

FileNames == { InputName(ManualScript), FilteredName(ManualScript),
               InputName(AutoScript), FilteredName(AutoScript),
               InputName(InterpScript), InterpolatedName,
               RereferencedName, InputName(IcaScript),
               IcaCleanedName, IcaSolutionName,
               InputName(EpochScript), EpochsName, InputName(BandScript) }

\* the variables of stages 2-4, 6 and 7 before those stages have run
CleanIdle ==
  /\ freqs = <<>>
  /\ band = ""
  /\ freq_idx = {}
  /\ final_bads = <<>>
  /\ raw_interpolated = None
  /\ raw_with_ref = None
  /\ raw_rerefed = None
  /\ filt_raw = None
  /\ ica = None
  /\ raw_cleaned = None

InitStage1(recs, scripts) ==
  /\ script \in scripts
  /\ \E f \in {NoFile} \cup { XdfFile(r) : r \in recs } :
       disk = [n \in FileNames |-> IF n = InputName(script) THEN f ELSE NoFile]
  /\ pc = "main"
  /\ streams = <<>>
  /\ lastInput = <<>>
  /\ eeg_stream = Unassigned
  /\ marker_stream = Unassigned
  /\ raw = None
  /\ raw_filtered = None
  /\ console = ""
  /\ exitCode = 0
  /\ events = NoEvents
  /\ epochs = None
  /\ CleanIdle

Init == InitStage1(Recordings, {ManualScript, AutoScript})

\* ------------------------------------------------ stage 1: pure operations

\* next((s for s in streams if test(s)), None), flags[i] = test(streams[i])
FirstWhere(flags) ==
  IF \E i \in 1..Len(flags) : flags[i]
  THEN Sel((CHOOSE i \in 1..Len(flags) :
              flags[i] /\ \A j \in 1..(i - 1) : ~flags[j]) - 1)
  ELSE SelNone

IsEegType(s) == s.type = T_EEG
HasMarkerType(s) == Contains(<<"M","a","r","k","e","r">>, s.type)

\* mutant: the signal type is matched as a substring
FindEegStream_Substring(ss) ==
  FirstWhere([i \in 1..Len(ss) |-> Contains(T_EEG, ss[i].type)])
\* mutant: the event type is matched without regard to letter case
FindMarkerStream_AnyCase(ss) ==
  FirstWhere([i \in 1..Len(ss) |->
                Contains(<<"M","A","R","K","E","R">>, Upper(ss[i].type))])

\* Load_and_filter.py: the stream taken as signal, the stream taken as events
FindEegStream(ss) == FirstWhere([i \in 1..Len(ss) |-> IsEegType(ss[i])])
FindMarkerStream(ss) == FirstWhere([i \in 1..Len(ss) |-> HasMarkerType(ss[i])])

\* mutant: the upper end of the index range is included
ChooseEeg_OffByOne(inp, n) ==
  IF IntParses(inp) /\ 0 <= IntValue(inp) /\ IntValue(inp) <= n
  THEN Sel(IntValue(inp)) ELSE Unassigned

\* 01_Load_and_filter.py: one turn of a selection loop on console line inp.
\* The result is the selection made, or Unassigned when the loop prompts again.
ChooseEeg(inp, n) ==
  IF IntParses(inp) /\ 0 <= IntValue(inp) /\ IntValue(inp) < n
  THEN Sel(IntValue(inp)) ELSE Unassigned
ChooseMarker(inp, n) ==
  IF Lower(inp) = <<"n","o","n","e">> THEN SelNone
  ELSE IF IntParses(inp) /\ 0 <= IntValue(inp) /\ IntValue(inp) < n
  THEN Sel(IntValue(inp)) ELSE Unassigned
LoopMessage(inp, isMarker) ==
  IF isMarker /\ Lower(inp) = <<"n","o","n","e">> THEN "Skipping marker stream processing."
  ELSE IF ~IntParses(inp)
  THEN (IF isMarker THEN "Invalid input. Please enter a number or 'none'."
        ELSE "Invalid input. Please enter a number.")
  ELSE "Invalid number. Please choose from the list above."

\* mutant: the trigger rule is tested first
ChannelType_TriggerFirst(name) ==
  LET uname == Upper(name)
  IN  IF Contains(L_TRIGGER, uname) THEN "stim"
      ELSE IF Contains(L_EOG, uname) \/ name = L_AUX7 \/ name = L_AUX8 THEN "eog"
      ELSE IF Contains(L_ECG, uname) \/ name = L_AUX9 THEN "ecg"
      ELSE "eeg"

\* mutant: the cardiac rule is tested before the ocular rule
ChannelType_EcgFirst(name) ==
  LET uname == Upper(name)
  IN  IF Contains(L_ECG, uname) \/ name = L_AUX9 THEN "ecg"
      ELSE IF Contains(L_EOG, uname) \/ name = L_AUX7 \/ name = L_AUX8 THEN "eog"
      ELSE IF Contains(L_TRIGGER, uname) THEN "stim"
      ELSE "eeg"

\* 01_Load_and_filter.py, step 6: the type of one channel
ChannelType(name) ==
  LET uname == Upper(name)
  IN  IF Contains(L_EOG, uname) \/ name = L_AUX7 \/ name = L_AUX8 THEN "eog"
      ELSE IF Contains(L_ECG, uname) \/ name = L_AUX9 THEN "ecg"
      ELSE IF Contains(L_TRIGGER, uname) THEN "stim"
      ELSE "eeg"

\* Load_and_filter.py, step 4: the type of one channel
ChannelTypeAuto(name) ==
  LET name_upper == Upper(name)
  IN  IF Contains(L_EOG, name_upper) THEN "eog"
      ELSE IF Contains(L_TRIGGER, name_upper) THEN "stim"
      ELSE "eeg"

\* mne.create_info + mne.io.RawArray on the selected stream
NewRaw(es, scale, types) ==
  [isNone |-> FALSE,
   ch_names |-> es.labels,
   ch_types |-> types,
   n_times |-> Len(es.series),
   scale |-> scale,
   annotations |-> <<>>,
   filters |-> <<>>]

\* rename_dict, in dict order
rename_dict ==
  << <<L_FPz, L_Fpz>>, <<L_OZ, L_Oz>>, <<L_AUX7, L_vEOG>>,
     <<L_AUX8, L_hEOG>>, <<L_AUX9, L_ECG>> >>

\* {key: val for key, val in rename_dict.items() if key in raw.ch_names}
ChannelsToRename(ch_names) ==
  SelectSeq(rename_dict, LAMBDA kv : InList(kv[1], ch_names))

\* mutant: the keys are compared without regard to letter case
RenameChannels_AnyCase(ch_names, mapping) ==
  [i \in 1..Len(ch_names) |->
     IF \E k \in 1..Len(mapping) : Upper(mapping[k][1]) = Upper(ch_names[i])
     THEN mapping[CHOOSE k \in 1..Len(mapping) :
                    Upper(mapping[k][1]) = Upper(ch_names[i])][2]
     ELSE ch_names[i]]

\* the names raw.rename_channels(mapping) sets
RenameChannels(ch_names, mapping) ==
  [i \in 1..Len(ch_names) |->
     IF \E k \in 1..Len(mapping) : mapping[k][1] = ch_names[i]
     THEN mapping[CHOOSE k \in 1..Len(mapping) : mapping[k][1] = ch_names[i]][2]
     ELSE ch_names[i]]

\* mne.Annotations(onset, duration, description): entries sorted by onset,
\* entries of equal onset and duration in the order given
RECURSIVE InsertByOnset(_, _)
InsertByOnset(sorted, a) ==
  IF sorted = <<>> THEN <<a>>
  ELSE IF sorted[Len(sorted)].onset <= a.onset THEN Append(sorted, a)
  ELSE Append(InsertByOnset(SubSeq(sorted, 1, Len(sorted) - 1), a), sorted[Len(sorted)])
RECURSIVE SortByOnset(_)
SortByOnset(s) ==
  IF s = <<>> THEN <<>>
  ELSE InsertByOnset(SortByOnset(SubSeq(s, 1, Len(s) - 1)), s[Len(s)])

\* mutant: onsets are counted from the event stream's own first timestamp
BuildAnnotations_OwnOrigin(ms, es) ==
  LET marker_onsets == [i \in 1..Len(ms.stamps) |-> ms.stamps[i] - ms.stamps[1]]
      marker_descriptions == [i \in 1..Len(ms.series) |-> PyStr(ms.series[i][1])]
  IN  SortByOnset([i \in 1..Len(marker_onsets) |->
                     [onset |-> marker_onsets[i], duration |-> 0,
                      description |-> marker_descriptions[i]]])

\* marker_onsets, marker_descriptions, marker_durations -> mne.Annotations
BuildAnnotations(ms, es) ==
  LET marker_onsets == [i \in 1..Len(ms.stamps) |-> ms.stamps[i] - es.stamps[1]]
      marker_descriptions == [i \in 1..Len(ms.series) |-> PyStr(ms.series[i][1])]
  IN  SortByOnset([i \in 1..Len(marker_onsets) |->
                     [onset |-> marker_onsets[i], duration |-> 0,
                      description |-> marker_descriptions[i]]])

\* raw.set_annotations(annotations): entries outside the data span
\* [0, n_times / sfreq] are omitted (with a warning)
SetAnnotations(r, ann) ==
  [r EXCEPT !.annotations =
     SelectSeq(ann, LAMBDA a : 0 <= a.onset + a.duration /\ a.onset <= r.n_times)]

\* channels_to_drop of main
channels_to_drop == <<L_EOG, L_TRIGGER>>

\* [ch for ch in channels_to_drop if ch in raw.ch_names]
ExistingChannelsToDrop(ch_names, to_drop) ==
  SelectSeq(to_drop, LAMBDA ch : InList(ch, ch_names))

\* mutant: a channel is dropped when its name contains a name to drop
KeptIndices_Substring(ch_names, names) ==
  { i \in 1..Len(ch_names) :
      ~\E k \in 1..Len(names) : Contains(names[k], ch_names[i]) }

\* the indices raw.drop_channels(names) keeps
KeptIndices(ch_names, names) ==
  { i \in 1..Len(ch_names) : ~InList(ch_names[i], names) }

RECURSIVE PickSeq(_, _, _)
PickSeq(s, keep, i) ==
  IF i > Len(s) THEN <<>>
  ELSE (IF i \in keep THEN <<s[i]>> ELSE <<>>) \o PickSeq(s, keep, i + 1)

\* raw.drop_channels(names)
DropChannels(r, names) ==
  LET keep == KeptIndices(r.ch_names, names)
  IN  [r EXCEPT !.ch_names = PickSeq(r.ch_names, keep, 1),
                !.ch_types = PickSeq(r.ch_types, keep, 1)]

\* main, step 2: drop the unwanted channels that exist
PruneChannels(r, to_drop) ==
  LET existing_channels_to_drop == ExistingChannelsToDrop(r.ch_names, to_drop)
  IN  IF existing_channels_to_drop # <<>>
      THEN DropChannels(r, existing_channels_to_drop)
      ELSE r

\* raw.copy() then notch_filter(50) and filter(0.1, 40.0)
Filtered(r) ==
  [r EXCEPT !.filters = @ \o <<"notch 50", "band-pass 0.1-40.0">>]

\* ------------------------------------- stage 1, 01_Load_and_filter.py

\* the lines a user may type at a prompt
ConsoleInputs ==
  { <<"0">>, <<"1">>, <<"2">>, <<"3">>, <<"4">>, <<"-","1">>, <<" ","1"," ">>,
    <<"1","_","0">>, <<"1",".","5">>, <<"x">>, <<>>,
    <<"n","o","n","e">>, <<"N","o","n","e">>, <<"N","O","N","E">>,
    <<"n","o","n","e"," ">> }

\* main: the input file does not exist
FileMissing ==
  /\ pc = "main"
  /\ disk[InputName(script)] = NoFile
  /\ console' = "Error: Input file not found"
  /\ pc' = "exit"
  /\ exitCode' = 0
  /\ UNCHANGED <<script, disk, streams, lastInput, eeg_stream, marker_stream,
                 raw, raw_filtered>>
  /\ UNCHANGED laterVars

\* load_xdf_to_mne returns None from its except clause
LoadFails ==
  /\ console' = "An error occurred during file loading"
  /\ raw' = None
  /\ pc' = "loaded"

\* mutant: an empty stream list is not refused
ManualLoadXdf_NoEmptyCheck ==
  /\ script = ManualScript
  /\ pc = "main"
  /\ disk[InputName(script)] # NoFile
  /\ streams' = disk[InputName(script)].streams
  /\ console' = "Available Streams"
  /\ pc' = "askEEG"
  /\ UNCHANGED <<script, disk, lastInput, eeg_stream, marker_stream, raw,
                 raw_filtered, exitCode>>
  /\ UNCHANGED laterVars

\* load_xdf_to_mne, steps 1-2
ManualLoadXdf ==
  /\ script = ManualScript
  /\ pc = "main"
  /\ disk[InputName(script)] # NoFile
  /\ streams' = disk[InputName(script)].streams
  /\ IF streams' = <<>>
     THEN LoadFails
     ELSE /\ console' = "Available Streams"
          /\ pc' = "askEEG"
          /\ UNCHANGED raw
  /\ UNCHANGED <<script, disk, lastInput, eeg_stream, marker_stream,
                 raw_filtered, exitCode>>
  /\ UNCHANGED laterVars

\* load_xdf_to_mne, step 3: one turn of the loop
ManualAskEeg ==
  /\ script = ManualScript
  /\ pc = "askEEG"
  /\ \E inp \in ConsoleInputs :
       /\ lastInput' = inp
       /\ IF ChooseEeg(inp, Len(streams)) # Unassigned
          THEN /\ eeg_stream' = ChooseEeg(inp, Len(streams))
               /\ console' = "Selected EEG stream"
               /\ pc' = "askMarker"
          ELSE /\ console' = LoopMessage(inp, FALSE)
               /\ UNCHANGED <<eeg_stream, pc>>
  /\ UNCHANGED <<script, disk, streams, marker_stream, raw, raw_filtered, exitCode>>
  /\ UNCHANGED laterVars

\* load_xdf_to_mne, step 4: one turn of the loop
ManualAskMarker ==
  /\ script = ManualScript
  /\ pc = "askMarker"
  /\ \E inp \in ConsoleInputs :
       /\ lastInput' = inp
       /\ IF ChooseMarker(inp, Len(streams)) # Unassigned
          THEN /\ marker_stream' = ChooseMarker(inp, Len(streams))
               /\ console' = IF marker_stream'.st = "none"
                             THEN LoopMessage(inp, TRUE)
                             ELSE "Selected marker stream"
               /\ pc' = "create"
          ELSE /\ console' = LoopMessage(inp, TRUE)
               /\ UNCHANGED <<marker_stream, pc>>
  /\ UNCHANGED <<script, disk, streams, eeg_stream, raw, raw_filtered, exitCode>>
  /\ UNCHANGED laterVars

\* load_xdf_to_mne, steps 5-7.  The scaling of a string series and the
\* channel list of a stream without one raise, and the except clause returns.
ManualCreateRaw ==
  /\ script = ManualScript
  /\ pc = "create"
  /\ LET es == StreamOf(eeg_stream)
     IN  IF es.fmt = "string" \/ ~es.desc
         THEN LoadFails
         ELSE /\ raw' = NewRaw(es, "1e-6",
                               [i \in 1..Len(es.labels) |-> ChannelType(es.labels[i])])
              /\ pc' = "rename"
              /\ UNCHANGED console
  /\ lastInput' = <<>>
  /\ UNCHANGED <<script, disk, streams, eeg_stream, marker_stream,
                 raw_filtered, exitCode>>
  /\ UNCHANGED laterVars

\* load_xdf_to_mne, the renaming.  rename_channels raises when the new
\* names are not unique, and the except clause returns.
ManualRename ==
  /\ script = ManualScript
  /\ pc = "rename"
  /\ LET channels_to_rename == ChannelsToRename(raw.ch_names)
         renamed == RenameChannels(raw.ch_names, channels_to_rename)
     IN  IF channels_to_rename # <<>>
         THEN IF Distinct(renamed)
              THEN /\ raw' = [raw EXCEPT !.ch_names = renamed]
                   /\ console' = "Renaming channels for clarity and compatibility"
                   /\ pc' = "annotate"
              ELSE LoadFails
         ELSE /\ pc' = "annotate"
              /\ UNCHANGED <<raw, console>>
  /\ UNCHANGED <<script, disk, streams, lastInput, eeg_stream, marker_stream,
                 raw_filtered, exitCode>>
  /\ UNCHANGED laterVars

\* load_xdf_to_mne, step 8 and the return
ManualAnnotate ==
  /\ script = ManualScript
  /\ pc = "annotate"
  /\ IF marker_stream.st = "stream"
     THEN /\ raw' = SetAnnotations(raw, BuildAnnotations(StreamOf(marker_stream),
                                                         StreamOf(eeg_stream)))
          /\ console' = "Successfully added markers as annotations."
     ELSE /\ console' = "Warning: No marker stream was selected."
          /\ UNCHANGED raw
  /\ pc' = "loaded"
  /\ UNCHANGED <<script, disk, streams, lastInput, eeg_stream, marker_stream,
                 raw_filtered, exitCode>>
  /\ UNCHANGED laterVars

\* main: raw is None
ManualLoadFailed ==
  /\ script = ManualScript
  /\ pc = "loaded"
  /\ raw = None
  /\ console' = "Failed to load data. Exiting."
  /\ pc' = "exit"
  /\ exitCode' = 0
  /\ UNCHANGED <<script, disk, streams, lastInput, eeg_stream, marker_stream,
                 raw, raw_filtered>>
  /\ UNCHANGED laterVars

\* main, step 2
ManualDrop ==
  /\ script = ManualScript
  /\ pc = "loaded"
  /\ raw # None
  /\ raw' = PruneChannels(raw, channels_to_drop)
  /\ console' = IF raw' # raw THEN "Dropping the following channels"
                ELSE "No 'EOG' or 'TRIGGER' channels found to remove."
  /\ pc' = "filter"
  /\ UNCHANGED <<script, disk, streams, lastInput, eeg_stream, marker_stream,
                 raw_filtered, exitCode>>
  /\ UNCHANGED laterVars

\* main, step 3
Filter ==
  /\ script \in {ManualScript, AutoScript}
  /\ pc = "filter"
  /\ raw_filtered' = Filtered(raw)
  /\ console' = "Filtering complete."
  /\ pc' = "save"
  /\ UNCHANGED <<script, disk, streams, lastInput, eeg_stream, marker_stream,
                 raw, exitCode>>
  /\ UNCHANGED laterVars

\* main, step 5, and the end of the script
Save ==
  /\ script \in {ManualScript, AutoScript}
  /\ pc = "save"
  /\ disk' = [disk EXCEPT ![FilteredName(script)] = FifFile(raw_filtered)]
  /\ console' = "Done."
  /\ pc' = "exit"
  /\ exitCode' = 0
  /\ UNCHANGED <<script, streams, lastInput, eeg_stream, marker_stream,
                 raw, raw_filtered>>
  /\ UNCHANGED laterVars

NextManual ==
  \/ FileMissing
  \/ ManualLoadXdf
  \/ ManualAskEeg
  \/ ManualAskMarker
  \/ ManualCreateRaw
  \/ ManualRename
  \/ ManualAnnotate
  \/ ManualLoadFailed
  \/ ManualDrop
  \/ Filter
  \/ Save

\* ---------------------------------------- stage 1, Load_and_filter.py
\* (main of this file holds unresolved merge markers around input_fname;
\* the two sides differ in the directory of the file only)

\* load_xdf_to_mne, steps 1-2.  RuntimeError is not caught by main.
AutoLoadXdf ==
  /\ script = AutoScript
  /\ pc = "main"
  /\ disk[InputName(script)] # NoFile
  /\ streams' = disk[InputName(script)].streams
  /\ eeg_stream' = FindEegStream(streams')
  /\ IF eeg_stream' = SelNone
     THEN /\ console' = "RuntimeError: Could not find any stream with type 'EEG' in the file."
          /\ pc' = "exit"
          /\ exitCode' = 1
     ELSE /\ pc' = "create"
          /\ UNCHANGED <<console, exitCode>>
  /\ UNCHANGED <<script, disk, lastInput, marker_stream, raw, raw_filtered>>
  /\ UNCHANGED laterVars

\* load_xdf_to_mne, steps 3-5
AutoCreateRaw ==
  /\ script = AutoScript
  /\ pc = "create"
  /\ LET es == StreamOf(eeg_stream)
     IN  raw' = NewRaw(es, "1",
                       [i \in 1..Len(es.labels) |-> ChannelTypeAuto(es.labels[i])])
  /\ console' = "Created MNE Raw object."
  /\ pc' = "annotate"
  /\ UNCHANGED <<script, disk, streams, lastInput, eeg_stream, marker_stream,
                 raw_filtered, exitCode>>
  /\ UNCHANGED laterVars

\* load_xdf_to_mne, step 6 and the return; main goes on to filter
AutoAnnotate ==
  /\ script = AutoScript
  /\ pc = "annotate"
  /\ marker_stream' = FindMarkerStream(streams)
  /\ IF marker_stream'.st = "stream"
     THEN /\ raw' = SetAnnotations(raw, BuildAnnotations(streams[marker_stream'.idx + 1],
                                                         StreamOf(eeg_stream)))
          /\ console' = "Successfully added markers as annotations."
     ELSE /\ console' = "Warning: No marker stream found."
          /\ UNCHANGED raw
  /\ pc' = "filter"
  /\ UNCHANGED <<script, disk, streams, lastInput, eeg_stream,
                 raw_filtered, exitCode>>
  /\ UNCHANGED laterVars

NextAuto ==
  \/ FileMissing
  \/ AutoLoadXdf
  \/ AutoCreateRaw
  \/ AutoAnnotate
  \/ Filter
  \/ Save

Next == NextManual \/ NextAuto

Spec == Init /\ [][Next]_vars

\* stage 1 on recordings that vary the channel labels (manual script)
InitChannels == InitStage1(RosterRecordings, {ManualScript})
SpecChannels == InitChannels /\ [][NextManual]_vars

\* stage 1 on recordings that vary the event samples (both scripts)
InitEvents == InitStage1(EventRecordings, {ManualScript, AutoScript})
SpecEvents == InitEvents /\ [][Next]_vars

\* ---------------------------------- stage 2, 02_Interpolate_Bad_Channels.py

L_FZ == <<"F","Z">>
L_CPz == <<"C","P","z">>

\* the signal state that stages 2-4 read and write: the channel roster
\* with its types, info['bads'], the channels that hold a non-finite
\* sample, info['highpass'] in tenths of a hertz, the projectors, the
\* channels rebuilt by interpolation, whether the data were overwritten by
\* a reference, and the ICA components removed from the data
Signal(names, types, hp) ==
  [isNone |-> FALSE, ch_names |-> names, ch_types |-> types, bads |-> <<>>,
   nonfinite |-> {}, highpass |-> hp, projs |-> <<>>, interpolated |-> {},
   rereferenced |-> FALSE, removed |-> {}]

ToSet(list) == { list[i] : i \in 1..Len(list) }

\* list.remove(x): the list without its first x
ListRemove(list, x) ==
  LET k == CHOOSE i \in 1..Len(list) :
             list[i] = x /\ \A j \in 1..(i - 1) : list[j] # x
  IN  SubSeq(list, 1, k - 1) \o SubSeq(list, k + 1, Len(list))

\* the rosters of the filtered files stage 2 may find, typed as stage 1
\* types them
InterpRosters ==
  { <<L_Cz, L_Fz, L_vEOG>>, <<L_fpz, L_ECG>>, <<L_Fz, L_FZ>> }
FilteredRaws ==
  { Signal(names, [i \in 1..Len(names) |-> ChannelType(names[i])], 1) :
      names \in InterpRosters }

\* clicking a channel name in raw.plot marks it bad, clicking it again
\* unmarks it
ClickBad(bads, ch) ==
  IF InList(ch, bads) THEN ListRemove(bads, ch) ELSE Append(bads, ch)

\* lines 62-68: the roster name that a console line names, if any
NamesChannel(names, user_input) ==
  InList(Upper(Strip(user_input)), [i \in 1..Len(names) |-> Upper(names[i])])
ActualChannelName_AsTyped(names, user_input) == Upper(Strip(user_input))
ActualChannelName(names, user_input) ==
  names[CHOOSE i \in 1..Len(names) :
          /\ Upper(names[i]) = Upper(Strip(user_input))
          /\ \A j \in 1..(i - 1) : Upper(names[j]) # Upper(Strip(user_input))]

\* lines 64-75: one pass of the loop on a non-empty console line
ToggleBad_AddOnly(names, bads, user_input) ==
  IF ~NamesChannel(names, user_input) THEN bads
  ELSE Append(bads, ActualChannelName(names, user_input))
ToggleBad(names, bads, user_input) ==
  IF ~NamesChannel(names, user_input) THEN bads
  ELSE IF InList(ActualChannelName(names, user_input), bads)
       THEN ListRemove(bads, ActualChannelName(names, user_input))
       ELSE Append(bads, ActualChannelName(names, user_input))

\* the bad channels of signal role
EegBads(r) ==
  { r.ch_names[i] : i \in { j \in 1..Len(r.ch_names) :
                              r.ch_types[j] = "eeg" /\ InList(r.ch_names[j], r.bads) } }
EegGoods(r) ==
  { r.ch_names[i] : i \in { j \in 1..Len(r.ch_names) :
                              r.ch_types[j] = "eeg" /\ ~InList(r.ch_names[j], r.bads) } }

\* raw.interpolate_bads(reset_bads=True, mode='accurate'): the bad EEG
\* channels are rebuilt from the good ones and info['bads'] is emptied.
\* When no bad channel is an EEG channel there is nothing to interpolate:
\* the library then either empties info['bads'] all the same or warns and
\* returns at once, leaving it, depending on its version (returnsEarly).
InterpolateBads(r, returnsEarly) ==
  IF EegBads(r) = {}
  THEN IF returnsEarly THEN r ELSE [r EXCEPT !.bads = <<>>]
  ELSE [r EXCEPT !.bads = <<>>,
                 !.interpolated = @ \cup EegBads(r),
                 !.nonfinite = IF EegGoods(r) \cap r.nonfinite = {}
                               THEN @ \ EegBads(r) ELSE @ \cup EegBads(r)]

\* the lines typed at the prompt of step 3
BadInputs ==
  { <<>>, <<" ">>, <<"f","z">>, <<"F","z">>, <<" ","F","Z"," ">>,
    <<"v","e","o","g">>, <<"c","z">>, <<"E","C","G">>, <<"F","P","Z">>,
    <<"x">> }

InitInterp ==
  /\ script = InterpScript
  /\ \E f \in {NoFile} \cup { FifFile(r) : r \in FilteredRaws } :
       disk = [n \in FileNames |-> IF n = InputName(script) THEN f ELSE NoFile]
  /\ pc = "main"
  /\ streams = <<>>
  /\ lastInput = <<>>
  /\ eeg_stream = Unassigned
  /\ marker_stream = Unassigned
  /\ raw = None
  /\ raw_filtered = None
  /\ console = ""
  /\ exitCode = 0
  /\ events = NoEvents
  /\ epochs = None
  /\ CleanIdle

idleVars == <<streams, eeg_stream, marker_stream, raw_filtered, events, epochs,
              bandVars>>

\* main, steps 1-2 up to the plot: the file is read and info['bads'] emptied
InterpLoad ==
  /\ script = InterpScript
  /\ pc = "main"
  /\ disk[InputName(script)] # NoFile
  /\ raw' = [disk[InputName(script)].raw EXCEPT !.bads = <<>>]
  /\ console' = "ACTION: In the plot window, LEFT-CLICK on the name of a channel"
  /\ pc' = "plot"
  /\ UNCHANGED <<script, disk, lastInput, exitCode, idleVars, cleanVars>>

\* raw.plot(block=True): a click on a channel name
InterpClick ==
  /\ script = InterpScript
  /\ pc = "plot"
  /\ \E i \in 1..Len(raw.ch_names) :
       raw' = [raw EXCEPT !.bads = ClickBad(raw.bads, raw.ch_names[i])]
  /\ UNCHANGED <<script, disk, pc, lastInput, console, exitCode, idleVars, cleanVars>>

\* the plot window is closed; lines 46-52
InterpClosePlot ==
  /\ script = InterpScript
  /\ pc = "plot"
  /\ final_bads' = raw.bads
  /\ console' = "Your current list of bad channels is:"
  /\ pc' = "confirm"
  /\ UNCHANGED <<script, disk, raw, lastInput, exitCode, idleVars,
                 raw_interpolated, rerefVars, icaVars>>

\* one pass of the while loop, lines 54-75
InterpAsk ==
  /\ script = InterpScript
  /\ pc = "confirm"
  /\ \E user_input \in BadInputs :
       /\ lastInput' = user_input
       /\ IF user_input = <<>>
          THEN /\ console' = "List confirmed."
               /\ pc' = "interpolate"
               /\ UNCHANGED final_bads
          ELSE /\ final_bads' = ToggleBad(raw.ch_names, final_bads, user_input)
               /\ console' = IF ~NamesChannel(raw.ch_names, user_input)
                             THEN "Error: Channel not found. Please try again."
                             ELSE IF InList(ActualChannelName(raw.ch_names, user_input),
                                            final_bads)
                                  THEN "Removed" ELSE "Added"
               /\ UNCHANGED pc
  /\ UNCHANGED <<script, disk, raw, exitCode, idleVars,
                 raw_interpolated, rerefVars, icaVars>>

\* lines 77-91
InterpInterpolate ==
  /\ script = InterpScript
  /\ pc = "interpolate"
  /\ raw' = [raw EXCEPT !.bads = final_bads]
  /\ IF final_bads = <<>>
     THEN /\ raw_interpolated' = raw'
          /\ console' = "No bad channels were selected. Skipping interpolation."
     ELSE /\ \E returnsEarly \in BOOLEAN :
               raw_interpolated' = InterpolateBads(raw', returnsEarly)
          /\ console' = "Interpolation complete."
  /\ pc' = "saveInterpolated"
  /\ UNCHANGED <<script, disk, lastInput, exitCode, idleVars,
                 final_bads, rerefVars, icaVars>>

\* lines 93-97
InterpSave ==
  /\ script = InterpScript
  /\ pc = "saveInterpolated"
  /\ disk' = [disk EXCEPT ![InterpolatedName] = FifFile(raw_interpolated)]
  /\ console' = "Done. You can now use this .fif file for the next step."
  /\ pc' = "exit"
  /\ exitCode' = 0
  /\ UNCHANGED <<script, raw, lastInput, idleVars, cleanVars>>

NextInterp ==
  \/ InterpLoad
  \/ InterpClick
  \/ InterpClosePlot
  \/ InterpAsk
  \/ InterpInterpolate
  \/ InterpSave

\* ------------------------------------------- stage 3, 03_Re-reference.py

\* the configuration section of main, lines 10-15: the only options
RerefConfiguration ==
  [base_dir |-> "C:\\Users\\otsuki\\Documents\\CurrentStudy\\sub-P002\\ses-S001\\eeg",
   subject_id |-> "sub-P002_ses-S001_task-Default_run-001"]
RerefConfigurations == { RerefConfiguration }
\* line 43: the projection argument of set_eeg_reference, whatever the options
RerefProjection(config) == TRUE

\* mne.add_reference_channels(raw, ref_channels=['CPz']): a copy with a flat
\* EEG channel appended; a name already in the roster is refused
AddReferenceChannel(r, name) ==
  [r EXCEPT !.ch_names = Append(@, name), !.ch_types = Append(@, "eeg")]
\* raw.filter(l_freq, h_freq=None): info['highpass'] rises to l_freq
HighPass(r, l_freq) ==
  [r EXCEPT !.highpass = IF l_freq > @ THEN l_freq ELSE @]
\* set_eeg_reference(ref_channels='average', projection): as a projector
\* the reference is appended to the projectors and the data are left
\* alone; otherwise the data are overwritten
AverageProj == "Average EEG reference"
SetEegReference(r, projection) ==
  IF projection
  THEN IF InList(AverageProj, r.projs) THEN r
       ELSE [r EXCEPT !.projs = Append(@, AverageProj)]
  ELSE [r EXCEPT !.rereferenced = TRUE]

\* the interpolated files stage 3 may find: high-passed at 0.1 Hz by stage 1,
\* or not high-passed at all
InterpolatedRaws ==
  { Signal(names, [i \in 1..Len(names) |-> ChannelType(names[i])], hp) :
      names \in { <<L_Cz, L_Fz, L_vEOG>>, <<L_Cz, L_CPz, L_ECG>> },
      hp \in {0, 1} }

InitReref ==
  /\ script = RerefScript
  /\ \E f \in {NoFile} \cup { FifFile(r) : r \in InterpolatedRaws } :
       disk = [n \in FileNames |-> IF n = InputName(script) THEN f ELSE NoFile]
  /\ pc = "main"
  /\ streams = <<>>
  /\ lastInput = <<>>
  /\ eeg_stream = Unassigned
  /\ marker_stream = Unassigned
  /\ raw = None
  /\ raw_filtered = None
  /\ console = ""
  /\ exitCode = 0
  /\ events = NoEvents
  /\ epochs = None
  /\ CleanIdle

\* main, step 1
RerefLoad ==
  /\ script = RerefScript
  /\ pc = "main"
  /\ disk[InputName(script)] # NoFile
  /\ raw' = disk[InputName(script)].raw
  /\ console' = "Loading interpolated data"
  /\ pc' = "addReference"
  /\ UNCHANGED <<script, disk, lastInput, exitCode, idleVars, cleanVars>>

\* main, step 2: the reference channel and the montage
RerefAddReference ==
  /\ script = RerefScript
  /\ pc = "addReference"
  /\ IF InList(L_CPz, raw.ch_names)
     THEN /\ console' = "ValueError: Channel CPz already specified in inst.ch_names"
          /\ pc' = "exit"
          /\ exitCode' = 1
          /\ UNCHANGED raw_with_ref
     ELSE /\ raw_with_ref' = AddReferenceChannel(raw, L_CPz)
          /\ console' = "Re-applying montage to set the location for the new CPz channel..."
          /\ pc' = "highpass"
          /\ UNCHANGED exitCode
  /\ UNCHANGED <<script, disk, raw, lastInput, idleVars, interpVars,
                 raw_rerefed, icaVars>>

\* mutant: the high-pass filter is left out
RerefHighPass_Skipped ==
  /\ script = RerefScript
  /\ pc = "highpass"
  /\ console' = "Applying high-pass filter to stabilize data before re-referencing..."
  /\ pc' = "reference"
  /\ UNCHANGED <<script, disk, raw, lastInput, exitCode, idleVars, cleanVars>>

\* main, line 35: raw_with_ref.filter(l_freq=0.1, h_freq=None), in place
RerefHighPass ==
  /\ script = RerefScript
  /\ pc = "highpass"
  /\ raw_with_ref' = HighPass(raw_with_ref, 1)
  /\ console' = "Applying high-pass filter to stabilize data before re-referencing..."
  /\ pc' = "reference"
  /\ UNCHANGED <<script, disk, raw, lastInput, exitCode, idleVars, interpVars,
                 raw_rerefed, icaVars>>

\* main, step 3
RerefSetReference ==
  /\ script = RerefScript
  /\ pc = "reference"
  /\ \E config \in RerefConfigurations :
       raw_rerefed' = SetEegReference(raw_with_ref, RerefProjection(config))
  /\ console' = "Average reference projector has been added."
  /\ pc' = "saveRereferenced"
  /\ UNCHANGED <<script, disk, raw, lastInput, exitCode, idleVars, interpVars,
                 raw_with_ref, icaVars>>

\* main, step 5
RerefSave ==
  /\ script = RerefScript
  /\ pc = "saveRereferenced"
  /\ disk' = [disk EXCEPT ![RereferencedName] = FifFile(raw_rerefed)]
  /\ console' = "Done. You can now use this .fif file for ICA."
  /\ pc' = "exit"
  /\ exitCode' = 0
  /\ UNCHANGED <<script, raw, lastInput, idleVars, cleanVars>>

NextReref ==
  \/ RerefLoad
  \/ RerefAddReference
  \/ RerefHighPass
  \/ RerefSetReference
  \/ RerefSave

\* --------------------------------------------------- stage 4, 04_ICA.py

MaxChannels == 16
\* n_components of line 50
n_components == 15

\* the EEG channels E1 .. En of a re-referenced file
EegName(i) == <<"E">> \o DecStr(i)
EegNames(n) == [i \in 1..n |-> EegName(i)]

\* the re-referenced files stage 4 may find: one to MaxChannels EEG
\* channels (stage 3 adds one itself), the ocular channels with or without
\* the cardiac one, and at most one channel holding a non-finite sample
EegCounts == { 1, n_components - 1, n_components, MaxChannels }
RereferencedRaws ==
  { [Signal(EegNames(n) \o aux,
            [i \in 1..(n + Len(aux)) |-> IF i <= n THEN "eeg"
                                         ELSE ChannelType(aux[i - n])], 1)
       EXCEPT !.nonfinite = nf, !.projs = <<AverageProj>>] :
      n \in EegCounts,
      aux \in { <<L_vEOG, L_hEOG, L_ECG>>, <<L_vEOG, L_hEOG>>, <<L_ECG>> },
      nf \in { {}, {EegName(1)}, {L_vEOG} } }

\* raw.pick_types(eeg=True): the EEG channels that are not marked bad
EegIndices(r) ==
  { i \in 1..Len(r.ch_names) : r.ch_types[i] = "eeg" /\ ~InList(r.ch_names[i], r.bads) }
PickTypesEeg(r) ==
  [r EXCEPT !.ch_names = PickSeq(r.ch_names, EegIndices(r), 1),
            !.ch_types = PickSeq(r.ch_types, EegIndices(r), 1),
            !.nonfinite = @ \cap { r.ch_names[i] : i \in EegIndices(r) }]

\* mne.preprocessing.ICA(n_components=15, method='picard', ...)
NewIca ==
  [isNone |-> FALSE, n_components |-> n_components, method |-> "picard",
   current_fit |-> "unfitted", ch_names |-> <<>>, highpass |-> 0,
   exclude |-> <<>>, labels_ |-> [eog |-> <<>>, ecg |-> <<>>]]

\* ica.fit starts by refusing more components than channels to fit on
FitRefuses_Never(i, f) == FALSE
FitRefuses(i, f) == i.n_components > Len(f.ch_names)

\* the components a click or a detection routine may name
ComponentPool == {0, 1, 2}
\* sorted(list(set(...)))
SortedIndices(S) ==
  [k \in 1..Cardinality(S) |->
     CHOOSE x \in S : Cardinality({ y \in S : y < x }) = k - 1]
\* what find_bads_eog and find_bads_ecg may return: lists of component
\* indices without repetition, in the order of their scores
EogIndexLists == { <<>>, <<0>>, <<1>>, <<0, 1>>, <<1, 0>> }
EcgIndexLists == { <<>>, <<1>>, <<2>> }
\* line 82: sorted(list(set(eog_indices + ecg_indices)))
CombineIndices_Concatenated(eog_indices, ecg_indices) == eog_indices \o ecg_indices
CombineIndices(eog_indices, ecg_indices) ==
  SortedIndices(ToSet(eog_indices \o ecg_indices))
\* a click on a component in ica.plot_sources marks it for exclusion, a
\* second click unmarks it
ToggleExclude(exclude, k) ==
  IF InList(k, exclude) THEN ListRemove(exclude, k) ELSE Append(exclude, k)

\* ica.apply(inst): the excluded components are removed from inst
IcaApplyTo_Nothing(i, inst) == inst
IcaApplyTo(i, inst) == [inst EXCEPT !.removed = @ \cup ToSet(i.exclude)]

InitIca ==
  /\ script = IcaScript
  /\ \E f \in {NoFile} \cup { FifFile(r) : r \in RereferencedRaws } :
       disk = [n \in FileNames |-> IF n = InputName(script) THEN f ELSE NoFile]
  /\ pc = "main"
  /\ streams = <<>>
  /\ lastInput = <<>>
  /\ eeg_stream = Unassigned
  /\ marker_stream = Unassigned
  /\ raw = None
  /\ raw_filtered = None
  /\ console = ""
  /\ exitCode = 0
  /\ events = NoEvents
  /\ epochs = None
  /\ CleanIdle

\* main, step 1
IcaLoad ==
  /\ script = IcaScript
  /\ pc = "main"
  /\ disk[InputName(script)] # NoFile
  /\ raw' = disk[InputName(script)].raw
  /\ console' = "Loading re-referenced data"
  /\ pc' = "prepare"
  /\ UNCHANGED <<script, disk, lastInput, exitCode, idleVars, cleanVars>>

\* main, step 2: the copy, restricted to EEG and high-passed at 1 Hz
IcaPrepare ==
  /\ script = IcaScript
  /\ pc = "prepare"
  /\ filt_raw' = HighPass(PickTypesEeg(raw), 10)
  /\ console' = "Applied a 1.0 Hz high-pass filter for better ICA performance."
  /\ pc' = "create"
  /\ UNCHANGED <<script, disk, raw, lastInput, exitCode, idleVars, interpVars,
                 rerefVars, ica, raw_cleaned>>

\* main, step 3: the ICA object.  Releases of the library that look for
\* the picard package in the constructor raise ImportError here, outside
\* the try of line 54, when it is missing (refuses); the others look for
\* it in fit.
IcaCreate ==
  /\ script = IcaScript
  /\ pc = "create"
  /\ \E refuses \in BOOLEAN :
       IF refuses
       THEN /\ console' = "ImportError: The python-picard package is required for method=picard"
            /\ pc' = "exit"
            /\ exitCode' = 1
            /\ UNCHANGED ica
       ELSE /\ ica' = NewIca
            /\ console' = "--- Step 3: Fitting the ICA model ---"
            /\ pc' = "fit"
            /\ UNCHANGED exitCode
  /\ UNCHANGED <<script, disk, raw, lastInput, idleVars, interpVars,
                 rerefVars, filt_raw, raw_cleaned>>

\* lines 57-62: the remediation printed when fit raises ImportError, as far
\* as the line that names the other method
PicardRemediation ==
  "ERROR: 'picard' package not found! [...] Alternatively, you can change the method in this script to 'fastica'"

\* mutant: the ImportError of fit is not caught
IcaFit_ImportUncaught ==
  /\ script = IcaScript
  /\ pc = "fit"
  /\ \E raises \in BOOLEAN, picard \in BOOLEAN :
       IF FitRefuses(ica, filt_raw)
       THEN /\ console' = "ValueError: ica.n_components cannot be greater than len(picks)"
            /\ pc' = "exit"
            /\ exitCode' = 1
            /\ UNCHANGED ica
       ELSE IF filt_raw.nonfinite # {} /\ raises
       THEN /\ console' = "ValueError: array must not contain infs or NaNs"
            /\ pc' = "exit"
            /\ exitCode' = 1
            /\ UNCHANGED ica
       ELSE IF ~picard
       THEN /\ console' = "ImportError: No module named 'picard'"
            /\ pc' = "exit"
            /\ exitCode' = 1
            /\ UNCHANGED ica
       ELSE /\ ica' = [ica EXCEPT !.current_fit = "raw",
                                  !.ch_names = filt_raw.ch_names,
                                  !.highpass = filt_raw.highpass]
            /\ console' = "ICA model has been successfully fitted."
            /\ pc' = "detect"
            /\ UNCHANGED exitCode
  /\ UNCHANGED <<script, disk, raw, lastInput, idleVars, interpVars,
                 rerefVars, filt_raw, raw_cleaned>>

\* main, step 3: ica.fit(filt_raw).  Only ImportError is caught.  On data
\* with a non-finite sample the decomposition either raises or returns
\* non-finite weights, depending on the linear-algebra routines (raises).
IcaFit ==
  /\ script = IcaScript
  /\ pc = "fit"
  /\ \E raises \in BOOLEAN, picard \in BOOLEAN :
       IF FitRefuses(ica, filt_raw)
       THEN /\ console' = "ValueError: ica.n_components cannot be greater than len(picks)"
            /\ pc' = "exit"
            /\ exitCode' = 1
            /\ UNCHANGED ica
       ELSE IF filt_raw.nonfinite # {} /\ raises
       THEN /\ console' = "ValueError: array must not contain infs or NaNs"
            /\ pc' = "exit"
            /\ exitCode' = 1
            /\ UNCHANGED ica
       ELSE IF ~picard
       THEN /\ console' = PicardRemediation
            /\ pc' = "exit"
            /\ exitCode' = 0
            /\ UNCHANGED ica
       ELSE /\ ica' = [ica EXCEPT !.current_fit = "raw",
                                  !.ch_names = filt_raw.ch_names,
                                  !.highpass = filt_raw.highpass]
            /\ console' = "ICA model has been successfully fitted."
            /\ pc' = "detect"
            /\ UNCHANGED exitCode
  /\ UNCHANGED <<script, disk, raw, lastInput, idleVars, interpVars,
                 rerefVars, filt_raw, raw_cleaned>>

\* main, step 4: find_bads_eog and find_bads_ecg refuse a channel name
\* that raw does not have; what they return is theirs to decide
IcaDetect ==
  /\ script = IcaScript
  /\ pc = "detect"
  /\ IF ~(InList(L_vEOG, raw.ch_names) /\ InList(L_hEOG, raw.ch_names))
     THEN /\ console' = "ValueError: vEOG, hEOG not in channel list"
          /\ pc' = "exit"
          /\ exitCode' = 1
          /\ UNCHANGED ica
     ELSE IF ~InList(L_ECG, raw.ch_names)
     THEN /\ console' = "ValueError: ECG not in channel list"
          /\ pc' = "exit"
          /\ exitCode' = 1
          /\ UNCHANGED ica
     ELSE /\ \E eog_indices \in EogIndexLists, ecg_indices \in EcgIndexLists :
               /\ ica' = [ica EXCEPT
                            !.labels_ = [eog |-> eog_indices, ecg |-> ecg_indices],
                            !.exclude = CombineIndices(eog_indices, ecg_indices)]
               /\ pc' = IF CombineIndices(eog_indices, ecg_indices) # <<>>
                        THEN "sources" ELSE "properties"
          /\ console' = "Plotting the automatically detected artifact components..."
          /\ UNCHANGED exitCode
  /\ UNCHANGED <<script, disk, raw, lastInput, idleVars, interpVars,
                 rerefVars, filt_raw, raw_cleaned>>

\* main, step 5, ica.plot_sources(raw, block=True): a click on a component
IcaToggle ==
  /\ script = IcaScript
  /\ pc = "sources"
  /\ \E k \in ComponentPool :
       ica' = [ica EXCEPT !.exclude = ToggleExclude(ica.exclude, k)]
  /\ UNCHANGED <<script, disk, pc, raw, lastInput, console, exitCode, idleVars,
                 interpVars, rerefVars, filt_raw, raw_cleaned>>

\* the sources window is closed
IcaCloseSources ==
  /\ script = IcaScript
  /\ pc = "sources"
  /\ console' = "Plotting all component properties for manual inspection."
  /\ pc' = "properties"
  /\ UNCHANGED <<script, disk, raw, lastInput, exitCode, idleVars, cleanVars>>

\* main, step 5, ica.plot_properties(raw, picks=ica.exclude): with nothing
\* excluded the selection is empty, which the library either refuses or
\* plots as nothing, depending on its version (refuses)
IcaProperties ==
  /\ script = IcaScript
  /\ pc = "properties"
  /\ \E refuses \in BOOLEAN :
       IF ica.exclude = <<>> /\ refuses
       THEN /\ console' = "ValueError: No appropriate channels found for the given picks"
            /\ pc' = "exit"
            /\ exitCode' = 1
       ELSE /\ console' = "Final list of components to be removed:"
            /\ pc' = "apply"
            /\ UNCHANGED exitCode
  /\ UNCHANGED <<script, disk, raw, lastInput, idleVars, cleanVars>>

\* main, step 6
IcaApply_OnFitCopy ==
  /\ script = IcaScript
  /\ pc = "apply"
  /\ raw_cleaned' = IcaApplyTo(ica, filt_raw)
  /\ console' = "ICA cleaning complete."
  /\ pc' = "saveCleaned"
  /\ UNCHANGED <<script, disk, raw, lastInput, exitCode, idleVars, interpVars,
                 rerefVars, filt_raw, ica>>
IcaApply ==
  /\ script = IcaScript
  /\ pc = "apply"
  /\ raw_cleaned' = IcaApplyTo(ica, raw)
  /\ console' = "ICA cleaning complete."
  /\ pc' = "saveCleaned"
  /\ UNCHANGED <<script, disk, raw, lastInput, exitCode, idleVars, interpVars,
                 rerefVars, filt_raw, ica>>

\* main, step 8, line 123: raw_cleaned.save
IcaSave ==
  /\ script = IcaScript
  /\ pc = "saveCleaned"
  /\ disk' = [disk EXCEPT ![IcaCleanedName] = FifFile(raw_cleaned)]
  /\ console' = "Saving the ICA solution"
  /\ pc' = "saveSolution"
  /\ UNCHANGED <<script, raw, lastInput, exitCode, idleVars, cleanVars>>

\* main, step 8, line 126: ica.save
IcaSaveSolution ==
  /\ script = IcaScript
  /\ pc = "saveSolution"
  /\ disk' = [disk EXCEPT ![IcaSolutionName] = IcaFile(ica)]
  /\ console' = "Done. The pipeline is complete."
  /\ pc' = "exit"
  /\ exitCode' = 0
  /\ UNCHANGED <<script, raw, lastInput, idleVars, cleanVars>>

NextIca ==
  \/ IcaLoad
  \/ IcaPrepare
  \/ IcaCreate
  \/ IcaFit
  \/ IcaDetect
  \/ IcaToggle
  \/ IcaCloseSources
  \/ IcaProperties
  \/ IcaApply
  \/ IcaSave
  \/ IcaSaveSolution

\* stages 2, 3 and 4, each on the files it may find
InitClean == InitInterp \/ InitReref \/ InitIca
NextClean == FileMissing \/ NextInterp \/ NextReref \/ NextIca
SpecClean == InitClean /\ [][NextClean]_vars

\* ------------------------------------ stage 5, 05_Epoch_and_Rejection.py

MaxMarkers == 9

\* characters in code-point order, for the order of Python strings
CharOrder == <<" ", ".">> \o Digits \o UpperLetters \o <<"_">> \o LowerLetters
RECURSIVE StrLess(_, _)
StrLess(a, b) ==
  IF a = <<>> THEN b # <<>>
  ELSE IF b = <<>> THEN FALSE
  ELSE IF a[1] = b[1] THEN StrLess(Tail(a), Tail(b))
  ELSE IndexIn(a[1], CharOrder) < IndexIn(b[1], CharOrder)

\* sorted(set of strings)
RECURSIVE SortedStrings(_)
SortedStrings(S) ==
  IF S = {} THEN <<>>
  ELSE LET m == CHOOSE x \in S : \A y \in S \ {x} : StrLess(x, y)
       IN  <<m>> \o SortedStrings(S \ {m})

\* the default regexp of events_from_annotations skips descriptions that
\* begin with bad or edge, in any letter case
Skipped(desc) ==
  \/ Len(desc) >= 3 /\ Lower(SubSeq(desc, 1, 3)) = <<"b","a","d">>
  \/ Len(desc) >= 4 /\ Lower(SubSeq(desc, 1, 4)) = <<"e","d","g","e">>

\* mne.events_from_annotations(raw): the descriptions, in sorted order, get
\* the ids 1, 2, ...; one event per annotation with such a description.
\* Without annotations the result is no event and no id.
EventsFromAnnotations(r) ==
  LET ann == r.annotations
      descs == SortedStrings({ ann[i].description : i \in { j \in 1..Len(ann) :
                                                         ~Skipped(ann[j].description) } })
      IdOf(desc) == CHOOSE k \in 1..Len(descs) : descs[k] = desc
      sel == SelectSeq(ann, LAMBDA a : ~Skipped(a.description))
  IN  [events |-> [i \in 1..Len(sel) |->
                     [sample |-> sel[i].onset, id |-> IdOf(sel[i].description),
                      ptp |-> sel[i].ptp]],
       event_id |-> [k \in 1..Len(descs) |-> <<descs[k], k>>]]

\* event_id of main, step 3
event_id ==
  << <<"Rotation 90", 2>>, <<"Rotation 60", 4>>, <<"Rotation 30", 6>>,
     <<"Post-rotation", 8>> >>
tmin == -1
tmax == 15
\* reject_criteria, in microvolts
RejectEeg == 150

\* mne.Epochs refuses an event_id value that no event carries
MissingIds(ev) ==
  { k \in 1..Len(event_id) : \A i \in 1..Len(ev) : ev[i].id # event_id[k][2] }
\* mne.Epochs refuses two selected events on one sample
Selected(ev) ==
  SelectSeq(ev, LAMBDA e : \E k \in 1..Len(event_id) : event_id[k][2] = e.id)
Repeated(ev) ==
  \E i, j \in 1..Len(Selected(ev)) : i # j /\ Selected(ev)[i].sample = Selected(ev)[j].sample

\* the condition name of an event id
ConditionOf(id) == event_id[CHOOSE k \in 1..Len(event_id) : event_id[k][2] = id][1]

\* entries of the drop log
S_NO_DATA == <<"N","O","_","D","A","T","A">>
S_TOO_SHORT == <<"T","O","O","_","S","H","O","R","T">>

\* mne.Epochs(raw, events, event_id, tmin, tmax, preload=True): one epoch per
\* selected event; a window that leaves the data is dropped on loading and
\* the drop log says why.  An epoch that is kept has an empty log entry.
NewEpochs(r, ev) ==
  LET sel == Selected(ev)
      Reason(e) == IF e.sample + tmin < 0 THEN <<S_NO_DATA>>
                   ELSE IF e.sample + tmax + 1 > r.n_times THEN <<S_TOO_SHORT>>
                   ELSE <<>>
  IN  [isNone |-> FALSE,
       ch_names |-> r.ch_names,
       ch_types |-> r.ch_types,
       n_samples |-> (tmax - tmin) + 1,
       items |-> [i \in 1..Len(sel) |->
                    [sample |-> sel[i].sample, id |-> sel[i].id,
                     condition |-> ConditionOf(sel[i].id), ptp |-> sel[i].ptp,
                     drop_log |-> Reason(sel[i])]]]

\* the EEG channels of an epoch whose peak-to-peak amplitude exceeds the
\* threshold, in roster order
Offenders_AtThreshold(e, ptp) ==
  PickSeq(e.ch_names,
          { i \in 1..Len(e.ch_names) : e.ch_types[i] = "eeg" /\ ptp[i] >= RejectEeg }, 1)
Offenders(e, ptp) ==
  PickSeq(e.ch_names,
          { i \in 1..Len(e.ch_names) : e.ch_types[i] = "eeg" /\ ptp[i] > RejectEeg }, 1)

\* epochs.drop_bad(reject=dict(eeg=150e-6)): an epoch with such a channel
\* is dropped, and its drop log entry is the names of those channels
DropBad(e) ==
  [e EXCEPT !.items =
     [i \in 1..Len(e.items) |->
        IF e.items[i].drop_log = <<>>
        THEN [e.items[i] EXCEPT !.drop_log = Offenders(e, e.items[i].ptp)]
        ELSE e.items[i]]]

\* the epochs that are in the epoch set
Retained(e) == SelectSeq(e.items, LAMBDA x : x.drop_log = <<>>)

\* the ICA-cleaned states stage 5 may find.  Markers 1..MaxMarkers come
\* 20 s apart, each present or absent; the signal around markers 2 and 4
\* is quiet, at the threshold on Cz, over it on Cz, over it on Cz and Fz,
\* or over it on vEOG alone (peak-to-peak amplitudes in microvolts, per
\* channel of the roster).  In some recordings marker 2 comes with the
\* first sample, in some marker 8 comes 5 s before the last.
LoudMarkers == {2, 4}
Amplitudes ==
  [quiet |-> <<100, 100, 100>>, edge |-> <<150, 100, 100>>,
   loudCz |-> <<200, 100, 100>>, loudBoth |-> <<200, 300, 100>>,
   loudEog |-> <<100, 100, 400>>]
MarkerChoices ==
  { [k \in 1..MaxMarkers |-> IF k \in LoudMarkers THEN a[k] ELSE b[k]] :
      a \in [LoudMarkers -> {"absent", "quiet", "edge", "loudCz", "loudBoth", "loudEog"}],
      b \in [(1..MaxMarkers) \ LoudMarkers -> {"absent", "quiet"}] }
Layouts == [early : BOOLEAN, late : BOOLEAN]
RecordingLength == 20 * (MaxMarkers + 1)
MarkerOnset(k, layout) ==
  IF layout.early /\ k = 2 THEN 0
  ELSE IF layout.late /\ k = 8 THEN RecordingLength - 5
  ELSE 20 * k
RECURSIVE MarkerAnnotations(_, _, _)
MarkerAnnotations(c, layout, k) ==
  IF k > MaxMarkers THEN <<>>
  ELSE (IF c[k] = "absent" THEN <<>>
        ELSE << [onset |-> MarkerOnset(k, layout), duration |-> 0,
                 description |-> DecStr(k), ptp |-> Amplitudes[c[k]]] >>)
       \o MarkerAnnotations(c, layout, k + 1)
CleanedRaws ==
  { [isNone |-> FALSE, ch_names |-> <<L_Cz, L_Fz, L_vEOG>>,
     ch_types |-> <<"eeg", "eeg", "eog">>, n_times |-> RecordingLength,
     scale |-> "1e-6",
     annotations |-> SortByOnset(MarkerAnnotations(c, layout, 1)),
     filters |-> <<"notch 50", "band-pass 0.1-40.0">>] :
      c \in MarkerChoices, layout \in Layouts }

InitEpoch ==
  /\ script = EpochScript
  /\ \E f \in {NoFile} \cup { FifFile(r) : r \in CleanedRaws } :
       disk = [n \in FileNames |-> IF n = InputName(script) THEN f ELSE NoFile]
  /\ pc = "main"
  /\ streams = <<>>
  /\ lastInput = <<>>
  /\ eeg_stream = Unassigned
  /\ marker_stream = Unassigned
  /\ raw = None
  /\ raw_filtered = None
  /\ console = ""
  /\ exitCode = 0
  /\ events = NoEvents
  /\ epochs = None
  /\ CleanIdle

\* main, step 1
EpochLoad ==
  /\ script = EpochScript
  /\ pc = "main"
  /\ disk[InputName(script)] # NoFile
  /\ raw' = disk[InputName(script)].raw
  /\ console' = "Loading ICA-cleaned data"
  /\ pc' = "events"
  /\ UNCHANGED <<script, disk, exitCode, events, epochs>>
  /\ UNCHANGED <<stage1Vars, cleanVars>>

\* main, step 2
EpochEvents ==
  /\ script = EpochScript
  /\ pc = "events"
  /\ events' = EventsFromAnnotations(raw)
  /\ console' = "Found the following event IDs:"
  /\ pc' = "epochs"
  /\ UNCHANGED <<script, disk, raw, exitCode, epochs>>
  /\ UNCHANGED <<stage1Vars, cleanVars>>

\* main, steps 3-4.  The exceptions of mne.Epochs are not caught.
EpochCreate ==
  /\ script = EpochScript
  /\ pc = "epochs"
  /\ IF MissingIds(events.events) # {}
     THEN /\ console' = "ValueError: No matching events found"
          /\ pc' = "exit"
          /\ exitCode' = 1
          /\ UNCHANGED epochs
     ELSE IF Repeated(events.events)
     THEN /\ console' = "RuntimeError: Event time samples were not unique"
          /\ pc' = "exit"
          /\ exitCode' = 1
          /\ UNCHANGED epochs
     ELSE /\ epochs' = NewEpochs(raw, events.events)
          /\ console' = "Epochs created successfully."
          /\ pc' = "reject"
          /\ UNCHANGED exitCode
  /\ UNCHANGED <<script, disk, raw, events>>
  /\ UNCHANGED <<stage1Vars, cleanVars>>

\* main, steps 5-6; the plots of the drop log and of the average change
\* nothing
EpochReject ==
  /\ script = EpochScript
  /\ pc = "reject"
  /\ epochs' = DropBad(epochs)
  /\ console' = "Summary of dropped epochs:"
  /\ pc' = "saveEpochs"
  /\ UNCHANGED <<script, disk, raw, exitCode, events>>
  /\ UNCHANGED <<stage1Vars, cleanVars>>

\* main, step 7, and the end of the script
EpochSave ==
  /\ script = EpochScript
  /\ pc = "saveEpochs"
  /\ disk' = [disk EXCEPT ![EpochsName] = EpoFile(epochs)]
  /\ console' = "Done."
  /\ pc' = "exit"
  /\ exitCode' = 0
  /\ UNCHANGED <<script, raw, events, epochs>>
  /\ UNCHANGED <<stage1Vars, cleanVars>>

NextEpoch ==
  \/ FileMissing
  \/ EpochLoad
  \/ EpochEvents
  \/ EpochCreate
  \/ EpochReject
  \/ EpochSave

SpecEpoch == InitEpoch /\ [][NextEpoch]_vars

\* ------------------- stages 6 and 7, 06_Bandpower.py, 07_Bandpower_Statistics.py

L_TP7 == <<"T","P","7">>

\* FREQ_BANDS, in hertz; a dict keeps the order of its keys
FREQ_BANDS ==
  << <<"Theta", 4, 8>>, <<"Alpha", 8, 13>>, <<"Beta", 13, 30>>, <<"Gamma", 30, 45>> >>
BAND_TO_ANALYZE == "Alpha"
CHANNEL_TO_ANALYZE == L_TP7

\* the arguments of epochs.compute_psd(method='welch', ...)
fmin == 1
fmax == 45
n_fft == 2048

\* Bin k of the spectrum is the frequency k * sfreq / n_fft.  Comparing it
\* with a whole number of hertz is done on k * sfreq and hz * n_fft.
BinAtLeast(k, sfreq, hz) == k * sfreq >= hz * n_fft
BinAtMost(k, sfreq, hz) == k * sfreq <= hz * n_fft
BinBelow(k, sfreq, hz) == k * sfreq < hz * n_fft

\* spectrum.get_data(return_freqs=True): the bins from fmin to fmax, both
\* included, in rising order
PsdFreqs(sfreq) ==
  LET first == (fmin * n_fft + sfreq - 1) \div sfreq
      byFmax == (fmax * n_fft) \div sfreq
      last == IF byFmax < n_fft \div 2 THEN byFmax ELSE n_fft \div 2
  IN  [i \in 1..(last - first + 1) |-> first + i - 1]

\* np.where((freqs >= freq_min) & (freqs < freq_max))[0], 0-based
FreqIdx_Closed(f, sfreq, freq_min, freq_max) ==
  { p \in 0..(Len(f) - 1) :
      BinAtLeast(f[p + 1], sfreq, freq_min) /\ BinAtMost(f[p + 1], sfreq, freq_max) }
FreqIdx(f, sfreq, freq_min, freq_max) ==
  { p \in 0..(Len(f) - 1) :
      BinAtLeast(f[p + 1], sfreq, freq_min) /\ BinBelow(f[p + 1], sfreq, freq_max) }

BandIndex(name) == CHOOSE i \in 1..Len(FREQ_BANDS) : FREQ_BANDS[i][1] = name

\* the epoch files the two scripts may find: epochs of tmax - tmin seconds
\* at some sampling rate
SamplingRates == {100, 250, 256, 500, 512, 1000, 1024}
SpectralEpochs ==
  { [isNone |-> FALSE, sfreq |-> sf, n_samples |-> (tmax - tmin) * sf + 1,
     ch_names |-> names] :
      sf \in SamplingRates, names \in { <<L_Cz, L_Fz>>, <<L_Cz, L_TP7>> } }

InitBands ==
  /\ script \in {BandScript, StatScript}
  /\ \E f \in {NoFile} \cup { EpoFile(e) : e \in SpectralEpochs } :
       disk = [n \in FileNames |-> IF n = InputName(script) THEN f ELSE NoFile]
  /\ pc = "main"
  /\ streams = <<>>
  /\ lastInput = <<>>
  /\ eeg_stream = Unassigned
  /\ marker_stream = Unassigned
  /\ raw = None
  /\ raw_filtered = None
  /\ console = ""
  /\ exitCode = 0
  /\ events = NoEvents
  /\ epochs = None
  /\ CleanIdle

\* the variables the two scripts leave alone
spectralIdle ==
  <<script, disk, streams, lastInput, eeg_stream, marker_stream, raw,
    raw_filtered, events, interpVars, rerefVars, icaVars>>

\* main, step 1: mne.read_epochs
BandLoad ==
  /\ script \in {BandScript, StatScript}
  /\ pc = "main"
  /\ disk[InputName(script)] # NoFile
  /\ epochs' = disk[InputName(script)].epochs
  /\ console' = "Loading cleaned epochs"
  /\ pc' = "psd"
  /\ UNCHANGED <<spectralIdle, exitCode, bandVars>>

\* epochs.compute_psd(method='welch', fmin=1.0, fmax=45.0, n_fft=2048) and
\* get_data: an FFT longer than the epochs is refused
BandPsd ==
  /\ script \in {BandScript, StatScript}
  /\ pc = "psd"
  /\ IF n_fft > epochs.n_samples
     THEN /\ console' = "ValueError: n_fft is not allowed to be > n_times"
          /\ pc' = "exit"
          /\ exitCode' = 1
          /\ UNCHANGED freqs
     ELSE /\ freqs' = PsdFreqs(epochs.sfreq)
          /\ console' = "PSD calculation complete."
          /\ pc' = "bands"
          /\ UNCHANGED exitCode
  /\ UNCHANGED <<spectralIdle, epochs, band, freq_idx>>

\* 06_Bandpower.py, step 5: one pass of the loop over FREQ_BANDS
BandSelect ==
  /\ script = BandScript
  /\ pc = "bands"
  /\ band # FREQ_BANDS[Len(FREQ_BANDS)][1]
  /\ LET i == IF band = "" THEN 1 ELSE BandIndex(band) + 1
     IN  /\ band' = FREQ_BANDS[i][1]
         /\ freq_idx' = FreqIdx(freqs, epochs.sfreq, FREQ_BANDS[i][2], FREQ_BANDS[i][3])
  /\ console' = "--- Step 5: Plotting Topomaps for each Condition and Band ---"
  /\ UNCHANGED <<spectralIdle, pc, exitCode, epochs, freqs>>

\* 06_Bandpower.py: the loop is over, the figure is shown
BandShow ==
  /\ script = BandScript
  /\ pc = "bands"
  /\ band = FREQ_BANDS[Len(FREQ_BANDS)][1]
  /\ console' = "Done. Analysis complete."
  /\ pc' = "exit"
  /\ exitCode' = 0
  /\ UNCHANGED <<spectralIdle, epochs, bandVars>>

\* 07_Bandpower_Statistics.py, step 3: the bins of BAND_TO_ANALYZE and the
\* index of CHANNEL_TO_ANALYZE
StatSelect ==
  /\ script = StatScript
  /\ pc = "bands"
  /\ band' = BAND_TO_ANALYZE
  /\ freq_idx' = FreqIdx(freqs, epochs.sfreq,
                         FREQ_BANDS[BandIndex(BAND_TO_ANALYZE)][2],
                         FREQ_BANDS[BandIndex(BAND_TO_ANALYZE)][3])
  /\ IF InList(CHANNEL_TO_ANALYZE, epochs.ch_names)
     THEN /\ console' = "--- Step 4: Organizing data for statistical analysis ---"
          /\ pc' = "statistics"
     ELSE /\ console' = "Error: Channel not found in the data."
          /\ pc' = "exit"
  /\ UNCHANGED <<spectralIdle, exitCode, epochs, freqs>>

\* 07_Bandpower_Statistics.py, steps 4-6
StatFinish ==
  /\ script = StatScript
  /\ pc = "statistics"
  /\ console' = "Done. Statistical analysis complete."
  /\ pc' = "exit"
  /\ exitCode' = 0
  /\ UNCHANGED <<spectralIdle, epochs, bandVars>>

NextBands ==
  \/ FileMissing
  \/ BandLoad
  \/ BandPsd
  \/ BandSelect
  \/ BandShow
  \/ StatSelect
  \/ StatFinish

SpecBands == InitBands /\ [][NextBands]_vars

\* ------------------------------------------------------------ properties

\* the streams of the input file of the running stage-1 script
FileStreams == disk[InputName(script)].streams
InputPresent == disk[InputName(script)] # NoFile
OutputWritten == disk[FilteredName(script)] # NoFile

\* positions of Load_and_filter.py after load_xdf_to_mne has returned a Raw
AutoReturned == script = AutoScript /\ pc \in {"filter", "save"}
AutoFinished == script = AutoScript /\ pc = "exit" /\ OutputWritten

EegPositions == { i \in 1..Len(FileStreams) : FileStreams[i].type = T_EEG }
MarkerPositions ==
  { i \in 1..Len(FileStreams) :
      \E k \in 1..(Len(FileStreams[i].type) - 5) :
         SubSeq(FileStreams[i].type, k, k + 5) = <<"M","a","r","k","e","r">> }

C2_FirstMarkerStream ==
  (AutoReturned \/ AutoFinished) =>
     /\ raw # None
     /\ IF MarkerPositions # {}
        THEN /\ marker_stream.st = "stream"
             /\ marker_stream.idx + 1 \in MarkerPositions
             /\ \A j \in MarkerPositions : marker_stream.idx + 1 <= j
        ELSE /\ marker_stream = SelNone
             /\ raw.annotations = <<>>
             /\ raw.ch_names = FileStreams[eeg_stream.idx + 1].labels
             /\ (pc = "exit" => exitCode = 0 /\ disk[FilteredName(script)].raw.annotations = <<>>)

\* C2 witness: a recording whose only marker-like type tag is lower case
\* loads without an event stream
C2_Witness ==
  /\ AutoFinished
  /\ MarkerPositions = {}
  /\ \E i \in 1..Len(streams) : streams[i].type = T_lower
  /\ marker_stream = SelNone
  /\ raw # None

\* C2 second witness state: the event stream is behind the signal stream
\* and ahead of another marker stream
C2_WitnessFirst ==
  /\ AutoFinished
  /\ Len(streams) = 3
  /\ MarkerPositions = {2, 3}
  /\ streams[2] # streams[3]
  /\ marker_stream = Sel(1)

\* a console line that is the word none in any letter case
IsNoneWord(s) ==
  /\ Len(s) = 4
  /\ s[1] \in {"n", "N"} /\ s[2] \in {"o", "O"}
  /\ s[3] \in {"n", "N"} /\ s[4] \in {"e", "E"}
\* a console line that int() reads as an index of the stream list
IsIndexLine(s) == IntParses(s) /\ IntValue(s) \in 0..(Len(streams) - 1)

\* C3: in manual mode a console line that is not a number, or is a number
\* outside 0..len(streams)-1, leaves the selection unmade and prompts the
\* same step again; a selection step ends only with an in-range index (or,
\* for the event stream, the word none in any letter case); an invalid line
\* never ends the stage.
C3_RepromptOnInvalid ==
  [][ /\ (pc = "askEEG" =>
            IF IsIndexLine(lastInput')
            THEN /\ pc' = "askMarker"
                 /\ eeg_stream' = Sel(IntValue(lastInput'))
            ELSE /\ pc' = "askEEG"
                 /\ eeg_stream' = Unassigned
                 /\ console' \in {"Invalid input. Please enter a number.",
                                  "Invalid number. Please choose from the list above."}
                 /\ UNCHANGED <<marker_stream, raw, raw_filtered, disk, exitCode>>)
      /\ (pc = "askMarker" =>
            IF IsNoneWord(lastInput')
            THEN /\ pc' = "create"
                 /\ marker_stream' = SelNone
            ELSE IF IsIndexLine(lastInput')
            THEN /\ pc' = "create"
                 /\ marker_stream' = Sel(IntValue(lastInput'))
            ELSE /\ pc' = "askMarker"
                 /\ marker_stream' = Unassigned
                 /\ console' \in {"Invalid input. Please enter a number or 'none'.",
                                  "Invalid number. Please choose from the list above."}
                 /\ UNCHANGED <<eeg_stream, raw, raw_filtered, disk, exitCode>>)
    ]_vars

\* C3 witness: the event prompt is up again after a line that is no number,
\* the signal stream having been chosen after an out-of-range try
C3_Witness ==
  /\ pc = "askMarker"
  /\ lastInput = <<"n","o","n","e"," ">>
  /\ console = "Invalid input. Please enter a number or 'none'."
  /\ marker_stream = Unassigned
  /\ eeg_stream = Sel(2)
  /\ Len(streams) = 3

\* C4: when the recording holds no stream, loading fails: no stream is
\* selected, load_xdf_to_mne returns None, main reports the failure and no
\* filtered file is written.
C4_NoStreams ==
  (script = ManualScript /\ InputPresent /\ FileStreams = <<>> /\ pc # "main") =>
     /\ pc \in {"loaded", "exit"}
     /\ eeg_stream = Unassigned
     /\ marker_stream = Unassigned
     /\ raw = None
     /\ raw_filtered = None
     /\ ~OutputWritten
     /\ (pc = "loaded" => console = "An error occurred during file loading")
     /\ (pc = "exit" => console = "Failed to load data. Exiting.")

\* C4 witness: the manual script has ended on a recording without streams
C4_Witness ==
  /\ script = ManualScript
  /\ InputPresent
  /\ FileStreams = <<>>
  /\ pc = "exit"
  /\ console = "Failed to load data. Exiting."

\* C5: on every fatal condition of a stage (input file missing, or loading
\* failed) the stage prints a message, writes no output file, and the
\* process ends with a non-zero exit status.
C5_FatalExitsNonZero ==
  (pc = "exit" /\ (~InputPresent \/ raw = None)) =>
     /\ console # ""
     /\ ~OutputWritten
     /\ exitCode # 0

\* the labels of the selected signal stream, as recorded
SignalLabels == StreamOf(eeg_stream).labels

\* the role rules in their fixed order: ocular, cardiac, trigger
RuleMatches(k, label) ==
  CASE k = 1 -> Contains(<<"E","O","G">>, Upper(label))
                \/ label \in {<<"A","U","X","7">>, <<"A","U","X","8">>}
    [] k = 2 -> Contains(<<"E","C","G">>, Upper(label)) \/ label = <<"A","U","X","9">>
    [] k = 3 -> Contains(<<"T","R","I","G","G","E","R">>, Upper(label))
RoleOfRule == <<"eog", "ecg", "stim">>
MatchingRules(label) == { k \in 1..3 : RuleMatches(k, label) }
FirstRuleRole(label) ==
  IF MatchingRules(label) = {} THEN "eeg"
  ELSE RoleOfRule[CHOOSE k \in MatchingRules(label) : \A m \in MatchingRules(label) : k <= m]

\* C6: role assignment gives every channel label exactly one role, the role
\* of the first matching rule in the order ocular (contains 'EOG', or is
\* AUX7/AUX8), cardiac (contains 'ECG', or is AUX9), trigger (contains
\* 'TRIGGER'), else signal; a label matching an earlier and a later rule
\* gets the earlier rule's role.
C6_FirstMatchingRule ==
  (script = ManualScript /\ pc \in {"rename", "annotate", "loaded"} /\ raw # None) =>
     /\ Len(raw.ch_types) = Len(SignalLabels)
     /\ \A i \in 1..Len(SignalLabels) :
          /\ raw.ch_types[i] \in {"eog", "ecg", "stim", "eeg"}
          /\ raw.ch_types[i] = FirstRuleRole(SignalLabels[i])

\* C6 witness: a label that matches the ocular and the cardiac rule has the
\* ocular role, beside a label that matches the cardiac and the trigger rule
C6_Witness ==
  /\ script = ManualScript
  /\ pc = "rename"
  /\ Len(SignalLabels) = 3
  /\ SignalLabels[2] = <<"E","C","G","_","E","O","G">>
  /\ MatchingRules(SignalLabels[2]) = {1, 2}
  /\ raw.ch_types[2] = "eog"
  /\ MatchingRules(SignalLabels[3]) = {2, 3}
  /\ raw.ch_types[3] = "ecg"

\* the roster the rename table gives when keys are compared exactly
RenamedExactly(names) ==
  [i \in 1..Len(names) |->
     IF \E k \in 1..Len(rename_dict) : rename_dict[k][1] = names[i]
     THEN rename_dict[CHOOSE k \in 1..Len(rename_dict) : rename_dict[k][1] = names[i]][2]
     ELSE names[i]]
\* the roster the rename table gives when keys are compared case-insensitively
RenamedAnyCase(names) ==
  [i \in 1..Len(names) |->
     IF \E k \in 1..Len(rename_dict) : Upper(rename_dict[k][1]) = Upper(names[i])
     THEN rename_dict[CHOOSE k \in 1..Len(rename_dict) :
                        Upper(rename_dict[k][1]) = Upper(names[i])][2]
     ELSE names[i]]

\* C7 as claimed: canonical renaming replaces every roster label that
\* equals a key of the rename table, compared case-insensitively, by the
\* standardized name and leaves every other label unchanged.
C7_RenameAnyCase ==
  [][ (pc = "rename" /\ pc' = "annotate") => raw'.ch_names = RenamedAnyCase(raw.ch_names) ]_vars

\* C7 as amended: canonical renaming replaces every roster label that is
\* exactly (case-sensitively) equal to a key of the rename table by the
\* standardized name and leaves every other label unchanged, a label that
\* differs from a key in letter case included, as long as the new names are
\* pairwise distinct (otherwise rename_channels raises and loading fails);
\* when no roster label equals a key the roster is unchanged and no error
\* is raised.
C7_RenameExact ==
  [][ pc = "rename" =>
        IF Distinct(RenamedExactly(raw.ch_names))
        THEN /\ pc' = "annotate"
             /\ raw' = [raw EXCEPT !.ch_names = RenamedExactly(raw.ch_names)]
             /\ ((\A i \in 1..Len(raw.ch_names) :
                    \A k \in 1..Len(rename_dict) : rename_dict[k][1] # raw.ch_names[i])
                 => raw' = raw /\ console' = console)
        ELSE /\ pc' = "loaded"
             /\ raw' = None
    ]_vars

\* C7 witness: AUX7 has become vEOG while aux7 has kept its name
C7_Witness ==
  /\ pc = "annotate"
  /\ SignalLabels = <<L_Cz, L_AUX7, L_aux7>>
  /\ raw.ch_names = <<L_Cz, L_vEOG, L_aux7>>

\* the positions of a roster whose name equals no entry of the drop list
KeptByName(names) == { i \in 1..Len(names) : names[i] \notin {L_EOG, L_TRIGGER} }

\* C10: channel pruning removes exactly the roster channels whose name is
\* equal to 'EOG' or 'TRIGGER'; channels that only contain such a name
\* (vEOG, hEOG) are kept, in order and with their types; when no name equals
\* an entry, or the drop list is empty, the state after pruning equals the
\* state before.
C10_PruneExactNames ==
  [][ (script = ManualScript /\ pc = "loaded" /\ raw # None) =>
        LET keep == KeptByName(raw.ch_names)
        IN  /\ pc' = "filter"
            /\ Len(raw'.ch_names) = Cardinality(keep)
            /\ Len(raw'.ch_types) = Cardinality(keep)
            /\ \A i \in keep :
                 LET r == Cardinality({ j \in keep : j <= i })
                 IN  /\ raw'.ch_names[r] = raw.ch_names[i]
                     /\ raw'.ch_types[r] = raw.ch_types[i]
            /\ raw' = [raw EXCEPT !.ch_names = raw'.ch_names, !.ch_types = raw'.ch_types]
            /\ (keep = 1..Len(raw.ch_names) => raw' = raw)
            /\ PruneChannels(raw, <<>>) = raw
    ]_vars

\* C10 witness: EOG has been dropped and vEOG, which contains it, is kept
C10_Witness ==
  /\ script = ManualScript
  /\ pc = "filter"
  /\ SignalLabels = <<L_Cz, L_EOG, L_vEOG>>
  /\ raw.ch_names = <<L_Cz, L_vEOG>>
  /\ raw.ch_types = <<"eeg", "eog">>

\* load_xdf_to_mne has returned a Raw built with an event stream
Annotated ==
  /\ raw # None
  /\ marker_stream.st = "stream"
  /\ pc \in {"loaded", "filter", "save", "exit"}

\* the annotation that event sample i of the selected event stream stands for
EventAnnotation(i) ==
  [onset |-> StreamOf(marker_stream).stamps[i] - StreamOf(eeg_stream).stamps[1],
   duration |-> 0,
   description |-> PyStr(StreamOf(marker_stream).series[i][1])]
EventCount == Len(StreamOf(marker_stream).stamps)
\* the event samples whose onset lies in the data span of the signal
EventsInSpan ==
  { i \in 1..EventCount :
      /\ 0 <= EventAnnotation(i).onset
      /\ EventAnnotation(i).onset <= Len(StreamOf(eeg_stream).series) }

\* C8 as claimed: with an event stream selected, the annotation collection
\* has exactly one annotation per event sample, in event order, each with
\* onset = event timestamp minus the signal stream's first timestamp,
\* duration 0 and label = the string form of the event payload.
C8_OnePerEvent ==
  Annotated =>
     /\ Len(raw.annotations) = EventCount
     /\ \A i \in 1..EventCount : raw.annotations[i] = EventAnnotation(i)

\* C8 as amended: with an event stream selected, the annotation collection
\* has exactly one annotation per event sample whose onset (event timestamp
\* minus the signal stream's first timestamp) lies within the signal's data
\* span [0, n_samples / sfreq], and none for the other event samples; the
\* annotations are ordered by onset, events of equal onset in event order
\* (event order throughout when the event timestamps do not decrease); each
\* has that onset, duration 0 and label = str of the event payload.
C8_OnePerEventInSpan ==
  Annotated =>
     /\ Len(raw.annotations) = Cardinality(EventsInSpan)
     /\ \E f \in [1..Len(raw.annotations) -> EventsInSpan] :
          /\ \A k \in 1..Len(raw.annotations) : raw.annotations[k] = EventAnnotation(f[k])
          /\ \A k, l \in 1..Len(raw.annotations) :
               k < l =>
                 \/ EventAnnotation(f[k]).onset < EventAnnotation(f[l]).onset
                 \/ /\ EventAnnotation(f[k]).onset = EventAnnotation(f[l]).onset
                    /\ f[k] < f[l]

\* C8 witness: of two events, the one ahead of the signal's first sample has
\* no annotation and the other has its annotation, in the saved file too
C8_Witness ==
  /\ Annotated
  /\ pc = "exit"
  /\ StreamOf(marker_stream).stamps = <<9, 12>>
  /\ StreamOf(eeg_stream).stamps[1] = 10
  /\ raw.annotations = << [onset |-> 2, duration |-> 0, description |-> <<"B">>] >>
  /\ disk[FilteredName(script)].raw.annotations = raw.annotations

\* C8 second witness state: two events in the span, later one first
C8_WitnessSorted ==
  /\ Annotated
  /\ StreamOf(marker_stream).stamps = <<12, 10>>
  /\ raw.annotations = << [onset |-> 0, duration |-> 0, description |-> <<"1","2">>],
                          [onset |-> 2, duration |-> 0, description |-> <<"1","2">>] >>

\* C9, first half: when no event stream is selected, the signal state that
\* loading returns has an empty annotation collection.
C9_NoEventStreamLoads ==
  (pc \in {"loaded", "filter", "save"} /\ marker_stream = SelNone /\ ~raw.isNone)
    => raw.annotations = <<>>

\* C9: segmentation of a state with zero annotations ends without failing
\* and writes an epoch set of zero epochs.
C9_ZeroAnnotationsZeroEpochs ==
  (script = EpochScript /\ pc = "exit" /\ ~raw.isNone /\ raw.annotations = <<>>)
    => /\ exitCode = 0
       /\ disk[EpochsName] # NoFile
       /\ ~epochs.isNone
       /\ epochs.items = <<>>

\* ------------------------------------------------ properties, stages 2-4

\* the roster names that a console line names without regard to letter case
RosterMatches(user_input) ==
  { n \in ToSet(raw.ch_names) : Upper(n) = Upper(Strip(user_input)) }

\* C11: in the confirmation loop of stage 2 every name of the in-progress
\* bad-channel list is a name of the roster, in the roster's spelling, and
\* occurs once; a line that names a roster channel without regard to case
\* changes the list by that roster name alone; a line that names no roster
\* channel leaves the list as it is and prompts again; the loop ends only
\* on an empty line.
C11_BadsAreRosterNames ==
  [][ script = InterpScript =>
        /\ (pc' = "confirm" =>
              /\ Distinct(final_bads')
              /\ ToSet(final_bads') \subseteq ToSet(raw'.ch_names))
        /\ (pc = "confirm" /\ lastInput' # <<>> =>
              /\ pc' = "confirm"
              /\ (RosterMatches(lastInput') = {} => final_bads' = final_bads)
              /\ (RosterMatches(lastInput') # {} =>
                    \E n \in RosterMatches(lastInput') :
                      (ToSet(final_bads') \ ToSet(final_bads))
                        \cup (ToSet(final_bads) \ ToSet(final_bads')) = {n}))
        /\ (pc = "confirm" /\ pc' # "confirm" =>
              lastInput' = <<>> /\ final_bads' = final_bads)
    ]_vars

\* C11 witness: FPZ was typed and the list holds the roster's fpz; x was
\* typed next and the list is as it was
C11_Witness ==
  /\ script = InterpScript
  /\ pc = "confirm"
  /\ raw.ch_names = <<L_fpz, L_ECG>>
  /\ lastInput = <<"x">>
  /\ console = "Error: Channel not found. Please try again."
  /\ final_bads = <<L_fpz>>

\* C12: for every confirmed bad-channel set the state that stage 2 saves
\* has an empty bad-channel set, and with an empty confirmed set the saved
\* state equals the loaded state.
C12_PersistedBadsEmpty ==
  (script = InterpScript /\ disk[InterpolatedName] # NoFile) =>
     /\ disk[InterpolatedName].raw.bads = <<>>
     /\ (final_bads = <<>> =>
           disk[InterpolatedName].raw = disk[InputName(script)].raw)

\* C13: both application modes of the reference can be selected by the
\* configuration: some configuration applies it as a projector and some
\* configuration overwrites the data.
C13_BothModesConfigurable ==
  (script = RerefScript /\ pc = "reference") =>
     \A projection \in BOOLEAN :
        \E config \in RerefConfigurations : RerefProjection(config) = projection

\* C14: the decomposition of stage 4 is never run on data in which a
\* channel holds a non-finite sample: such channels have been marked bad
\* and interpolated before.
C14_FitOnFiniteData ==
  (script = IcaScript /\ pc = "fit" /\ ~FitRefuses(ica, filt_raw)) =>
     /\ filt_raw.nonfinite = {}
     /\ raw.nonfinite \subseteq raw.interpolated

\* C15: the decomposition is never fitted with more components than there
\* are EEG channels in the fitting copy; when the configured count exceeds
\* that number stage 4 ends with the component-count error, unfitted, and
\* with neither output file written.
C15_ComponentCount ==
  /\ (script = IcaScript /\ ~ica.isNone /\ ica.current_fit # "unfitted") =>
        /\ ica.n_components <= Len(ica.ch_names)
        /\ ica.ch_names = filt_raw.ch_names
  /\ (script = IcaScript /\ ~filt_raw.isNone
        /\ n_components > Cardinality({ i \in 1..Len(filt_raw.ch_names) :
                                          filt_raw.ch_types[i] = "eeg" })) =>
        /\ pc \in {"create", "fit", "exit"}
        /\ ica.isNone \/ ica.current_fit = "unfitted"
        /\ disk[IcaCleanedName] = NoFile
        /\ disk[IcaSolutionName] = NoFile
        /\ (pc = "exit" /\ ~ica.isNone) =>
             /\ exitCode = 1
             /\ console = "ValueError: ica.n_components cannot be greater than len(picks)"

\* C15 witness: with one EEG channel fewer than components the stage has
\* ended on the component-count error
C15_Witness ==
  /\ script = IcaScript
  /\ pc = "exit"
  /\ ~filt_raw.isNone
  /\ Len(filt_raw.ch_names) = n_components - 1
  /\ console = "ValueError: ica.n_components cannot be greater than len(picks)"
  /\ exitCode = 1
  /\ disk[IcaCleanedName] = NoFile

\* C16: a toggle adds the item when it is absent and removes it when it is
\* present, and toggling the same item once more gives back the set of
\* before the first toggle: for a channel name typed in the loop of stage 2
\* (the item being the roster channel that the line resolves to) and for a
\* component clicked in the sources window of stage 4.
C16_DoubleToggle ==
  [][ /\ (script = InterpScript /\ pc = "confirm" /\ pc' = "confirm") =>
           /\ ToSet(ToggleBad(raw.ch_names, final_bads', lastInput')) = ToSet(final_bads)
           /\ (RosterMatches(lastInput') # {} =>
                 \E n \in RosterMatches(lastInput') :
                    /\ n \notin ToSet(final_bads) => ToSet(final_bads') = ToSet(final_bads) \cup {n}
                    /\ n \in ToSet(final_bads) => ToSet(final_bads') = ToSet(final_bads) \ {n})
      /\ (script = IcaScript /\ pc = "sources" /\ pc' = "sources") =>
           \A k \in ComponentPool :
              ica'.exclude = ToggleExclude(ica.exclude, k) =>
                /\ (k \in ToSet(ica'.exclude)) = (k \notin ToSet(ica.exclude))
                /\ ToSet(ToggleExclude(ica'.exclude, k)) = ToSet(ica.exclude)
    ]_vars

\* C16 witness: Cz was marked in the plot and fz typed in the loop, which
\* added the roster's Fz
C16_Witness ==
  /\ script = InterpScript
  /\ pc = "confirm"
  /\ lastInput = <<"f","z">>
  /\ console = "Added"
  /\ final_bads = <<L_Cz, L_Fz>>

\* C17: stage 4 removes the excluded components from a copy of the loaded
\* data, which keeps the roster and the high-pass of the loaded data, and
\* not from the 1 Hz high-passed fitting copy; the fitting copy is in no
\* file; the loaded data object is changed by no step after loading.
C17_ApplyOnLoadedCopy ==
  [][ script = IcaScript =>
        /\ (~raw.isNone => raw' = raw)
        /\ (~raw_cleaned'.isNone =>
              /\ raw_cleaned' = [raw' EXCEPT !.removed = ToSet(ica'.exclude)]
              /\ raw_cleaned' # filt_raw')
        /\ \A n \in FileNames :
              (disk'[n].kind = "fif" /\ n # InputName(script)) =>
                 /\ n = IcaCleanedName
                 /\ disk'[n].raw = raw_cleaned'
                 /\ disk'[n].raw # filt_raw'
    ]_vars

\* C17 witness: the cleaned file has the loaded roster and high-pass and
\* lacks a component, while the fitting copy is high-passed at 1 Hz
C17_Witness ==
  /\ script = IcaScript
  /\ pc = "exit"
  /\ disk[IcaCleanedName] # NoFile
  /\ disk[IcaCleanedName].raw.removed = {1}
  /\ disk[IcaCleanedName].raw.highpass = 1
  /\ disk[IcaCleanedName].raw.ch_names = raw.ch_names
  /\ filt_raw.highpass = 10
  /\ Len(filt_raw.ch_names) < Len(raw.ch_names)

\* -------------------------------------------------- properties, stage 5

\* the annotations whose label is the marker of a condition of the table
\* (2, 4, 6 or 8), and the condition of such a label
InTable(desc) == \E k \in 1..Len(event_id) : desc = DecStr(event_id[k][2])
LabelCondition(desc) ==
  event_id[CHOOSE k \in 1..Len(event_id) : desc = DecStr(event_id[k][2])][1]
TableAnnotations == SelectSeq(raw.annotations, LAMBDA a : InTable(a.description))

\* C18: given N annotations whose labels are in the condition table, and
\* before any amplitude rejection, segmentation yields exactly N epochs of
\* (tmax - tmin) * sample_rate + 1 samples each, wherever the onsets lie.
C18_OneEpochPerAnnotation ==
  (script = EpochScript /\ pc = "reject") =>
     /\ Len(Retained(epochs)) = Len(TableAnnotations)
     /\ epochs.n_samples = (tmax - tmin) * 1 + 1

\* the candidate epochs, and whether one exceeds the threshold on some
\* channel of signal role
Candidates ==
  SelectSeq(epochs.items,
            LAMBDA x : x.drop_log # <<S_NO_DATA>> /\ x.drop_log # <<S_TOO_SHORT>>)
Exceeds(x) ==
  \E i \in 1..Len(epochs.ch_names) :
     epochs.ch_types[i] = "eeg" /\ x.ptp[i] > RejectEeg
ExceedingChannels(x) ==
  { epochs.ch_names[i] : i \in { j \in 1..Len(epochs.ch_names) :
                                   epochs.ch_types[j] = "eeg" /\ x.ptp[j] > RejectEeg } }
AfterRejection ==
  script = EpochScript /\ ~epochs.isNone /\ pc \in {"saveEpochs", "exit"}
S_amplitude == <<"a","m","p","l","i","t","u","d","e">>

\* C19 as claimed: every candidate epoch in which a channel of signal role
\* exceeds the threshold of 150 microvolts peak to peak is out of the epoch
\* set and in the drop log with the reason "amplitude"; the other
\* candidates are retained.
C19_DropLogAmplitude ==
  AfterRejection =>
     \A i \in 1..Len(Candidates) :
        IF Exceeds(Candidates[i])
        THEN Candidates[i].drop_log = <<S_amplitude>>
        ELSE Candidates[i].drop_log = <<>>

\* C19 as amended: every candidate epoch in which a channel of signal role
\* exceeds the threshold of 150 microvolts peak to peak is out of the epoch
\* set and in the drop log, where its entry is the names of the EEG
\* channels that exceeded the threshold; the other candidates are
\* retained; the saved file holds the epoch set with this drop log.
C19_DropLogChannels ==
  AfterRejection =>
     /\ \A i \in 1..Len(Candidates) :
           IF Exceeds(Candidates[i])
           THEN /\ Candidates[i].drop_log # <<>>
                /\ ToSet(Candidates[i].drop_log) = ExceedingChannels(Candidates[i])
           ELSE Candidates[i].drop_log = <<>>
     /\ (pc = "exit" /\ exitCode = 0) => disk[EpochsName] = EpoFile(epochs)

\* C19 witness: in the saved file the epoch of marker 2, over the threshold
\* on Cz and Fz, is logged with those names, and the epoch of marker 4,
\* at the threshold on Cz, is retained
C19_Witness ==
  /\ AfterRejection
  /\ pc = "exit"
  /\ disk[EpochsName] # NoFile
  /\ Len(disk[EpochsName].epochs.items) = 4
  /\ disk[EpochsName].epochs.items[1].ptp = <<200, 300, 100>>
  /\ disk[EpochsName].epochs.items[1].drop_log = <<L_Cz, L_Fz>>
  /\ disk[EpochsName].epochs.items[2].ptp = <<150, 100, 100>>
  /\ disk[EpochsName].epochs.items[2].drop_log = <<>>

\* C20: whenever an epoch set is constructed, an annotation becomes a
\* candidate epoch if and only if its label is in the condition table,
\* annotations with other labels give no epoch, and every epoch carries the
\* condition of the table that the label of its annotation maps to.
C20_EpochsFollowLabels ==
  (script = EpochScript /\ ~epochs.isNone) =>
     /\ Len(epochs.items) = Len(TableAnnotations)
     /\ \A i \in 1..Len(epochs.items) :
           /\ epochs.items[i].sample = TableAnnotations[i].onset
           /\ epochs.items[i].condition = LabelCondition(TableAnnotations[i].description)

\* ------------------------------------------------ properties, the hand-off

\* the file a stage writes for the next one, and the stage that reads it
\* (file names are compared without their directories; the scripts of
\* stages 3 and 4 also differ in base_dir)
OutputName(s) ==
  CASE s = ManualScript -> FilteredName(ManualScript)
    [] s = AutoScript -> FilteredName(AutoScript)
    [] s = InterpScript -> InterpolatedName
    [] s = RerefScript -> RereferencedName
    [] s = IcaScript -> IcaCleanedName
    [] s = EpochScript -> EpochsName
Successor(s) ==
  CASE s = InterpScript -> RerefScript
    [] s = RerefScript -> IcaScript
    [] s = IcaScript -> EpochScript

C21_InputNeverWritten ==
  [][ /\ disk'[InputName(script)] = disk[InputName(script)]
      /\ (disk' # disk => pc' \in {"saveSolution", "exit"}) ]_vars

\* ----------------------------------------- properties, the role rules again

\* the role a label gets when the three rules are tested in another order
RuleOrders ==
  { o \in [1..3 -> 1..3] : \A i, j \in 1..3 : i # j => o[i] # o[j] }
RoleInOrder(label, o) ==
  IF MatchingRules(label) = {} THEN "eeg"
  ELSE RoleOfRule[o[CHOOSE i \in 1..3 :
                      /\ o[i] \in MatchingRules(label)
                      /\ \A j \in 1..(i - 1) : o[j] \notin MatchingRules(label)]]
RolesAssigned ==
  script = ManualScript /\ pc \in {"rename", "annotate", "loaded"} /\ raw # None

\* C22 as claimed: no channel label matches more than one of the role
\* rules, so the role a label receives is the same in whatever order the
\* rules are tested.
C22_RulesExclusive ==
  RolesAssigned =>
     \A i \in 1..Len(SignalLabels) :
        /\ Cardinality(MatchingRules(SignalLabels[i])) <= 1
        /\ \A o \in RuleOrders : raw.ch_types[i] = RoleInOrder(SignalLabels[i], o)

\* C22 as amended: a label that matches at most one rule receives the same
\* role in whatever order the rules are tested; a label that matches more
\* than one rule receives the role of the first of them in the order
\* ocular, cardiac, trigger, and some other order would give it another
\* role.
C22_OrderMattersOnOverlap ==
  RolesAssigned =>
     \A i \in 1..Len(SignalLabels) :
        IF Cardinality(MatchingRules(SignalLabels[i])) <= 1
        THEN \A o \in RuleOrders : raw.ch_types[i] = RoleInOrder(SignalLabels[i], o)
        ELSE /\ raw.ch_types[i] = RoleInOrder(SignalLabels[i], <<1, 2, 3>>)
             /\ \E o \in RuleOrders : raw.ch_types[i] # RoleInOrder(SignalLabels[i], o)

\* C22 witness: TRIGGER_ECG matches the cardiac and the trigger rule and is
\* given the cardiac role, beside AUX9, which matches the cardiac rule only
C22_Witness ==
  /\ RolesAssigned
  /\ Len(SignalLabels) = 3
  /\ SignalLabels[2] = L_TRIGGER_ECG
  /\ MatchingRules(SignalLabels[2]) = {2, 3}
  /\ raw.ch_types[2] = "ecg"
  /\ RoleInOrder(SignalLabels[2], <<3, 2, 1>>) = "stim"
  /\ SignalLabels[3] = L_AUX9
  /\ MatchingRules(SignalLabels[3]) = {2}
  /\ raw.ch_types[3] = "ecg"

\* C23: role assignment ignores case for every rule: two channel labels
\* that are equal after upper-casing (aux7 and AUX7, eog1 and EOG1) are
\* given the same role.
C23_RolesIgnoreCase ==
  RolesAssigned =>
     \A i, j \in 1..Len(SignalLabels) :
        Upper(SignalLabels[i]) = Upper(SignalLabels[j]) =>
           raw.ch_types[i] = raw.ch_types[j]

\* ------------------------------------------- properties, stage 3 and 4 again

\* C24: in stage 3 the average reference is only ever set on data that
\* were high-pass filtered at 0.1 Hz earlier in the same run, and the
\* filter runs after the reference channel CPz has been restored: the step
\* that sets the reference is reached only through the filter step, finds
\* CPz in the roster and a high-pass edge of at least 0.1 Hz, and the
\* filter step finds CPz in the roster and no reference set yet.
C24_HighPassBeforeReference ==
  [][ script = RerefScript =>
        /\ (pc' = "reference" =>
              /\ pc = "highpass"
              /\ ~raw_with_ref.isNone
              /\ InList(L_CPz, raw_with_ref.ch_names)
              /\ raw_rerefed.isNone
              /\ raw_with_ref'.highpass >= 1)
        /\ (raw_rerefed' # raw_rerefed =>
              /\ pc = "reference"
              /\ raw_with_ref.highpass >= 1
              /\ InList(L_CPz, raw_with_ref.ch_names)
              /\ raw_rerefed'.highpass >= 1
              /\ raw_rerefed'.ch_names = raw_with_ref.ch_names) ]_vars

\* C24 witness: a file that was never high-pass filtered has gone through
\* the stage, and the saved state has CPz, the 0.1 Hz edge and the reference
C24_Witness ==
  /\ script = RerefScript
  /\ pc = "exit"
  /\ disk[RereferencedName] # NoFile
  /\ disk[InputName(script)].raw.highpass = 0
  /\ disk[RereferencedName].raw.highpass = 1
  /\ InList(L_CPz, disk[RereferencedName].raw.ch_names)
  /\ InList(AverageProj, disk[RereferencedName].raw.projs)

\* C25: right after scoring, the exclusion set is the union of the
\* component indices flagged against the ocular channels and those flagged
\* against the cardiac channel: every flagged index is in it, no other
\* index is, and no index is in it twice.
C25_ExcludeIsUnion ==
  [][ (script = IcaScript /\ pc = "detect" /\ pc' \in {"sources", "properties"}) =>
        /\ ToSet(ica'.exclude) =
             ToSet(ica'.labels_.eog) \cup ToSet(ica'.labels_.ecg)
        /\ \A i, j \in 1..Len(ica'.exclude) :
              i # j => ica'.exclude[i] # ica'.exclude[j] ]_vars

\* C25 witness: component 1 was flagged against both references, component
\* 0 against the ocular ones, and the set holds each once
C25_Witness ==
  /\ script = IcaScript
  /\ pc = "sources"
  /\ ica.labels_.eog = <<1, 0>>
  /\ ica.labels_.ecg = <<1>>
  /\ ica.exclude = <<0, 1>>

\* the console after a fit that was refused for another reason
FitValueErrors ==
  { "ValueError: ica.n_components cannot be greater than len(picks)",
    "ValueError: array must not contain infs or NaNs" }
FitRaisedImportError ==
  script = IcaScript /\ pc = "fit" /\ pc' = "exit" /\ console' \notin FitValueErrors

\* C26: when the fit raises ImportError because the package of the
\* configured method is missing, stage 4 prints the remediation that names
\* the other method (fastica) and returns, with neither the cleaned-data
\* file nor the decomposition file written.
C26_ImportErrorRemediation ==
  [][ FitRaisedImportError =>
        /\ console' = PicardRemediation
        /\ exitCode' = 0
        /\ ica'.current_fit = "unfitted"
        /\ disk' = disk
        /\ disk'[IcaCleanedName] = NoFile
        /\ disk'[IcaSolutionName] = NoFile ]_vars

\* C26 witness: a run on enough channels has ended on the remediation
C26_Witness ==
  /\ script = IcaScript
  /\ pc = "exit"
  /\ console = PicardRemediation
  /\ ~FitRefuses(ica, filt_raw)
  /\ exitCode = 0
  /\ disk[IcaCleanedName] = NoFile
  /\ disk[IcaSolutionName] = NoFile

\* C27: when a run of stage 4 has ended, the cleaned data and the
\* decomposition are both in their files or neither is, and the exclusion
\* set in the decomposition file is the set of components that were removed
\* from the data in the cleaned file.
C27_BothOrNeither ==
  (script = IcaScript /\ pc = "exit") =>
     /\ disk[IcaCleanedName] = NoFile <=> disk[IcaSolutionName] = NoFile
     /\ disk[IcaCleanedName] # NoFile =>
          /\ ToSet(disk[IcaSolutionName].ica.exclude) = disk[IcaCleanedName].raw.removed
          /\ disk[IcaSolutionName].ica = ica
          /\ disk[IcaCleanedName].raw = raw_cleaned

\* C27 witness: both files are written, after the detected components 0
\* and 1 were reduced by a click to component 0
C27_Witness ==
  /\ script = IcaScript
  /\ pc = "exit"
  /\ disk[IcaCleanedName] # NoFile
  /\ disk[IcaSolutionName] # NoFile
  /\ disk[IcaSolutionName].ica.labels_.eog = <<0, 1>>
  /\ disk[IcaSolutionName].ica.exclude = <<0>>
  /\ disk[IcaCleanedName].raw.removed = {0}

\* ----------------------------------------------- properties, stages 6 and 7

\* the bands a bin of the spectrum is selected for, and where the bin lies
BandsOf(p) ==
  { i \in 1..Len(FREQ_BANDS) :
      p \in FreqIdx(freqs, epochs.sfreq, FREQ_BANDS[i][2], FREQ_BANDS[i][3]) }
InAnalysedRange(p) ==
  /\ freqs[p + 1] * epochs.sfreq >= 4 * n_fft
  /\ freqs[p + 1] * epochs.sfreq < 45 * n_fft
SpectrumReady ==
  script \in {BandScript, StatScript} /\ freqs # <<>>

\* C28: with the half-open test (freq >= lower and freq < upper) every bin
\* of the spectrum is selected for at most one of Theta, Alpha, Beta and
\* Gamma; a bin in [4, 45) Hz is selected for exactly one; a bin below 4 Hz
\* and the bin at 45 Hz are selected for none; and the bins the scripts
\* select for a band are the bins of that test.
C28_BandsPartition ==
  SpectrumReady =>
     /\ \A p \in 0..(Len(freqs) - 1) :
           /\ Cardinality(BandsOf(p)) <= 1
           /\ InAnalysedRange(p) => Cardinality(BandsOf(p)) = 1
           /\ ~InAnalysedRange(p) => BandsOf(p) = {}
     /\ band # "" => freq_idx = { p \in 0..(Len(freqs) - 1) : BandIndex(band) \in BandsOf(p) }

\* C28 witness: at 512 Hz the bins are a quarter of a hertz apart; the bin
\* at 8 Hz (position 28) is selected for Alpha, the bin at 7.75 Hz is
\* not, and the spectrum has bins at 1 Hz and at 45 Hz that no band selects
C28_Witness ==
  /\ SpectrumReady
  /\ epochs.sfreq = 512
  /\ band = "Alpha"
  /\ freqs[1] = 4
  /\ freqs[29] = 32
  /\ 28 \in freq_idx
  /\ 27 \notin freq_idx
  /\ BandsOf(27) = {1}
  /\ freqs[Len(freqs)] = 180
  /\ BandsOf(Len(freqs) - 1) = {}
  /\ BandsOf(0) = {}
====
